---- MODULE Spec2Model ----
(***************************************************************************)
(* RHWidget: the cursor-price bridge (page context -> privileged context), *)
(* the cursor-price display loop, symbol activation, active-symbol         *)
(* detection and trade submission of extension/content.js and              *)
(* injected_cursor.js.                                                     *)
(*                                                                         *)
(* Text is modelled as sequences of one-character strings.                 *)
(***************************************************************************)
EXTENDS Integers, Sequences, FiniteSets, TLC

(***************************************************************************)
(* Characters and text helpers                                             *)
(***************************************************************************)
UpperLetters == <<"A","B","C","D","E","F","G","H","I","J","K","L","M",
                  "N","O","P","Q","R","S","T","U","V","W","X","Y","Z">>

LowerLetters == <<"a","b","c","d","e","f","g","h","i","j","k","l","m",
                  "n","o","p","q","r","s","t","u","v","w","x","y","z">>

Digits == {"0","1","2","3","4","5","6","7","8","9"}

UpperSet == {UpperLetters[i] : i \in 1..26}

\* String.prototype.toUpperCase, one character
ToUpperChar(c) ==
  IF \E i \in 1..26 : LowerLetters[i] = c
    THEN UpperLetters[CHOOSE i \in 1..26 : LowerLetters[i] = c]
    ELSE c

ToUpperCase(s) == [i \in 1..Len(s) |-> ToUpperChar(s[i])]

RECURSIVE TrimLeft(_)
TrimLeft(s) ==
  IF s # <<>> /\ Head(s) = " " THEN TrimLeft(Tail(s)) ELSE s

RECURSIVE TrimRight(_)
TrimRight(s) ==
  IF s # <<>> /\ s[Len(s)] = " " THEN TrimRight(SubSeq(s, 1, Len(s) - 1)) ELSE s

\* String.prototype.trim
Trim(s) == TrimRight(TrimLeft(s))

(***************************************************************************)
(* extractTicker                                                           *)
(***************************************************************************)

_TICKER_STOPWORDS ==
  { <<"U","N","T","I","T","L","E","D">>,
    <<"A","L","L">>,
    <<"E","Q","U","I","T","I","E","S">>,
    <<"F","U","T","U","R","E","S">>,
    <<"C","R","Y","P","T","O">>,
    <<"I","N","D","E","X","E","S">>,
    <<"S","Y","M","B","O","L">>,
    <<"P","R","I","C","E">>,
    <<"C","H","A","N","G","E">>,
    <<"V","O","L","U","M","E">>,
    <<"F","L","O","A","T">>,
    <<"T","I","M","E">> }

\* [A-Z0-9]
TokenStartChar(c) == c \in UpperSet \/ c \in Digits

\* [A-Z0-9.\-]
TokenChar(c) == TokenStartChar(c) \/ c = "." \/ c = "-"

\* the greedy {0,14} of the candidate pattern: the last index of the match
\* that starts at i
RECURSIVE MatchEnd(_, _, _)
MatchEnd(s, i, j) ==
  IF j < Len(s) /\ j - i < 14 /\ TokenChar(s[j + 1])
    THEN MatchEnd(s, i, j + 1)
    ELSE j

\* s.match(/[A-Z0-9][A-Z0-9.\-]{0,14}/g) || []
RECURSIVE MatchCandidates(_, _)
MatchCandidates(s, i) ==
  IF i > Len(s) THEN <<>>
  ELSE IF TokenStartChar(s[i])
    THEN LET j == MatchEnd(s, i, i)
         IN  <<SubSeq(s, i, j)>> \o MatchCandidates(s, j + 1)
    ELSE MatchCandidates(s, i + 1)

\* c0.replace(/^[0-9]+/, "")
RECURSIVE StripLeadingDigits(_)
StripLeadingDigits(c) ==
  IF c # <<>> /\ Head(c) \in Digits THEN StripLeadingDigits(Tail(c)) ELSE c

\* the body of the for loop of extractTicker: does candidate c0 survive
CandidateToken(c0) == StripLeadingDigits(c0)

\* a variant that accepts any non-empty candidate, for comparison
CandidateAny(c) == c # <<>>

CandidateOk(c) ==
  /\ c # <<>>
  /\ Head(c) \in UpperSet
  /\ Len(c) >= 1 /\ Len(c) <= 7
  /\ c \notin _TICKER_STOPWORDS

RECURSIVE PickBest(_, _, _)
PickBest(cands, k, best) ==
  IF k > Len(cands) THEN best
  ELSE LET c == CandidateToken(cands[k])
       IN  IF CandidateOk(c) /\ Len(c) > Len(best)
             THEN PickBest(cands, k + 1, c)
             ELSE PickBest(cands, k + 1, best)

extractTicker(raw) ==
  LET s == ToUpperCase(Trim(raw))
  IN  IF s = <<>> THEN <<>>
      ELSE PickBest(MatchCandidates(s, 1), 1, <<>>)

(***************************************************************************)
(* Bounds of the model                                                     *)
(***************************************************************************)
\* the clock of the bridge specification advances in steps of QuantumBridge ms
\* up to MaxTimeBridge ms, that of the display specification in steps of
\* QuantumDisplay ms up to MaxTimeDisplay ms, that of the quote specification in
\* steps of QuantumDisplay ms up to MaxTimeQuote ms
QuantumBridge == 80
MaxTimeBridge == 1040
QuantumDisplay == 100
MaxTimeDisplay == 2500
MaxTimeQuote == 900
\* at most this many messages wait for delivery at once
MaxInflight == 1
\* the single-token texts have up to MaxDigits leading digits, the long words
\* up to MaxWordLen letters
\* the clock of the post specification advances in steps of QuantumPost ms up
\* to MaxTimePost ms
QuantumPost == 25
MaxTimePost == 500
MaxDigits == 9
MaxWordLen == 17

\* prices are in thousandths of a dollar
Prices == {212504, 99001}
\* null, and the NaN that Number() gives for what it cannot parse, as numbers
\* outside the prices
null == 0 - 1
NaN == 0 - 2

(***************************************************************************)
(* State                                                                   *)
(***************************************************************************)
VARIABLES
  now,                  \* the clock (performance.now() and Date.now()), ms
  reader,               \* which in-page script owns window.__RH_CURSOR_V5__
  state,                \* the in-page script's state object
  inflight,             \* window messages posted and not yet delivered
  tickWake,             \* when setInterval(tick, 80) is next due
  domPrice,             \* what readDomCursorPriceAtRightEdge() reads
  lastFrameCursorPrice, \* content.js
  lastFrameCursorTs,    \* content.js
  legendRoute,          \* isLegendRoute()
  cpl,                  \* cursorPriceLoop: lastGood, lastGoodTs, wake, started
  cursorPriceText,      \* textContent of .cursor-price
  hCall,                \* history: the last post/send call and the steady run
  hRecv,                \* history: the last valid message received
  hEmit                 \* history: the last two messages the page context emitted

priceVars == <<now, reader, state, inflight, tickWake, domPrice,
               lastFrameCursorPrice, lastFrameCursorTs, legendRoute, cpl,
               cursorPriceText, hCall, hRecv, hEmit>>

VARIABLES
  currentCfg,           \* content.js: the configuration in memory
  lastActivatedSymbol,  \* content.js
  dom,                  \* the page: elements, their text, focus, URL
  call,                 \* the running activateSymbol call, its locals and position
  clipboard,            \* navigator.clipboard
  trade,                \* the running executeTrade call and what it did
  statusText,           \* the widget's status line
  hOk                   \* history: the symbols whose activation returned true

symVars == <<currentCfg, lastActivatedSymbol, dom, call, clipboard, trade,
             statusText, hOk>>

VARIABLES
  storage,              \* chrome.storage.local: per key, <<>> or <<value>>
  session,              \* the training session: kind, number, drag start
  sleeping,             \* click handlers of bindSymbolInput in their sleep(50)
  storageQ,             \* chrome.storage.local calls made and not yet answered
  poll,                 \* position of pollLoop
  liveTimers,           \* pending setStatus(ui, "ok", "live") after a sleep
  widgetStatus,         \* the text of the widget's status line
  hTrain                \* history of the trainings

trainVars == <<storage, session, sleeping, storageQ, poll, liveTimers, widgetStatus,
               hTrain>>

VARIABLES
  canvases,             \* the page's canvas elements, in document order
  hooked,               \* state.hooked of the in-page script
  lastMouseClientY,     \* state.lastMouseClientY (injected_cursor.js)
  mouseY_canvas,        \* state.mouseY_canvas (inline script)
  hDraw,                \* history: the last drawing call through a canvas context
  hPass,                \* history: the install passes so far and the last one
  hClass,               \* history: the last style classified and its classes
  hFit,                 \* history: the last call of detectCursorPriceFromScale
  hKey,                 \* history: the last keydown and the side it traded
  runs,                 \* the calls of activateSymbol that overlap, in the order made
  hSteps,               \* history: the steps of those calls, in the order made
  hSel                  \* history: a descriptor built for an element and its replay

hookVars ==
  <<canvases, hooked, lastMouseClientY, mouseY_canvas, hDraw, hPass, hClass, hFit, hKey,
    runs, hSteps, hSel>>

vars == <<priceVars, symVars, trainVars, hookVars>>

(***************************************************************************)
(* Page context: post (injected_cursor.js) and send (inline script)        *)
(***************************************************************************)
\* Number.isFinite(n) && n > 0
FinitePositive(n) == n # NaN /\ n # null /\ n > 0

HEARTBEAT_MS == 350
THROTTLE_MS == 50

\* the message post/send hand to postMessage
CursorMsg(n, t) == [rhwidget |-> TRUE, type |-> "cursor_price", price |-> n, ts |-> t]

\* a variant of post's throttle that never holds a call back, for comparison
postNeverThrottled(st, t) == FALSE

\* post: the call comes less than THROTTLE_MS after the last emitted message
postThrottled(st, t) == t - st.lastSent < THROTTLE_MS

\* a variant of post's duplicate test that lets every repeat through, for
\* comparison
postRepeatAlwaysDue(st, n, t) == TRUE

\* a variant of post that does not remember what it posted, for comparison
postForgetful(st, price, t) ==
  IF ~FinitePositive(price) THEN [st |-> st, out |-> <<>>]
  ELSE [st |-> [st EXCEPT !.cursorPrice = price], out |-> <<CursorMsg(price, t)>>]

\* injected_cursor.js post(price) at time t: the new state and what is posted
postHeartbeatDue(st, n, t) == ~(st.lastSentPrice = n /\ t - st.lastSent < HEARTBEAT_MS)

post(st, price, t) ==
  IF ~FinitePositive(price) THEN [st |-> st, out |-> <<>>]
  ELSE LET st1 == [st EXCEPT !.cursorPrice = price]
       IN  IF postThrottled(st, t) THEN [st |-> st1, out |-> <<>>]
           ELSE IF ~postHeartbeatDue(st, price, t) THEN [st |-> st1, out |-> <<>>]
           ELSE [st  |-> [st1 EXCEPT !.lastSent = t, !.lastSentPrice = price],
                 out |-> <<CursorMsg(price, t)>>]

\* content.js inline script send(price) at time t
send(st, price, t) ==
  IF ~FinitePositive(price) THEN [st |-> st, out |-> <<>>]
  ELSE LET st1 == [st EXCEPT !.cursorPrice = price]
       IN  IF t - st.lastSent < THROTTLE_MS THEN [st |-> st1, out |-> <<>>]
           ELSE IF st.lastSentPrice = price THEN [st |-> st1, out |-> <<>>]
           ELSE [st  |-> [st1 EXCEPT !.lastSent = t, !.lastSentPrice = price],
                 out |-> <<CursorMsg(price, t)>>]

(***************************************************************************)
(* Page context: the callers of post / send                                *)
(***************************************************************************)
TICK_MS == 80

\* history of the calls of post/send: the price and time of the last call
\* and the start of the run of calls with that price no more than TICK_MS apart
NoteCall(h, price, t) ==
  IF ~FinitePositive(price) THEN h
  ELSE [price |-> price, at |-> t,
        since |-> IF h.price = price /\ t - h.at <= TICK_MS THEN h.since ELSE t]

\* history of the emitted messages: how many (up to 2), the time and price of
\* the last one, the price of the one before it, and the time between the two
\* (gaps of HEARTBEAT_MS and more are recorded as HEARTBEAT_MS)
NoteEmit(h, out, t) ==
  IF out = <<>> THEN h
  ELSE [n |-> IF h.n < 2 THEN h.n + 1 ELSE 2, at |-> t, price |-> out[1].price,
        gap |-> IF t - h.at < HEARTBEAT_MS THEN t - h.at ELSE HEARTBEAT_MS,
        prevPrice |-> h.price]

\* what the installed script calls: post (injected) or send (inline)
Emit(st, price, t) == IF reader = "injected" THEN post(st, price, t) ELSE send(st, price, t)

\* the messages waiting for the privileged listener, oldest first
Posted(out) == inflight \o out

\* injected_cursor.js tick(), every TICK_MS
DomTick ==
  /\ reader = "injected"
  /\ tickWake <= now
  /\ Len(inflight) < MaxInflight
  /\ LET r == IF domPrice # null THEN post(state, domPrice, now)
              ELSE [st |-> state, out |-> <<>>]
     IN  /\ state' = r.st
         /\ inflight' = Posted(r.out)
         /\ hCall' = IF domPrice # null THEN NoteCall(hCall, domPrice, now) ELSE hCall
         /\ hEmit' = NoteEmit(hEmit, r.out, now)
  /\ tickWake' = tickWake + TICK_MS
  /\ UNCHANGED <<now, reader, domPrice, lastFrameCursorPrice, lastFrameCursorTs,
                 legendRoute, cpl, cursorPriceText, hRecv,
                 symVars, trainVars, hookVars>>

\* the wrapped fillText of a hooked canvas, for a label with value val
\* (null: the text is no positive number) drawn dy px from the pointer row
FillText(val, nearRight, dy, bgOk) ==
  /\ Len(inflight) < MaxInflight
  /\ LET hit1 == reader = "injected" /\ val # null /\ nearRight /\ dy < 10
         hit2 == val # null /\ nearRight /\ bgOk /\ dy < 35
         r1 == IF hit1 THEN post(state, val, now) ELSE [st |-> state, out |-> <<>>]
         r2 == IF hit2 THEN Emit(r1.st, val, now) ELSE [st |-> r1.st, out |-> <<>>]
     IN  /\ hit1 \/ hit2
         /\ state' = r2.st
         /\ inflight' = Posted(r1.out \o r2.out)
         /\ hCall' = NoteCall(hCall, val, now)
         /\ hEmit' = NoteEmit(NoteEmit(hEmit, r1.out, now), r2.out, now)
  /\ UNCHANGED <<now, reader, tickWake, domPrice, lastFrameCursorPrice,
                 lastFrameCursorTs, legendRoute, cpl, cursorPriceText, hRecv,
                 symVars, trainVars, hookVars>>

\* the page redraws its DOM price label
DomChange(p) ==
  /\ domPrice # p
  /\ domPrice' = p
  /\ UNCHANGED <<now, reader, state, inflight, tickWake, lastFrameCursorPrice,
                 lastFrameCursorTs, legendRoute, cpl, cursorPriceText, hCall, hRecv, hEmit,
                 symVars, trainVars, hookVars>>

\* another script of the page posts a message that is no cursor price
ForeignMessages ==
  { [rhwidget |-> FALSE, type |-> "cursor_price", price |-> 99001, ts |-> 0],
    [rhwidget |-> TRUE, type |-> "other", price |-> 99001, ts |-> 0],
    [rhwidget |-> TRUE, type |-> "cursor_price", price |-> 0, ts |-> 0],
    [rhwidget |-> TRUE, type |-> "cursor_price", price |-> NaN, ts |-> 0] }

ForeignPost(m) ==
  /\ Len(inflight) < MaxInflight
  /\ inflight' = Append(inflight, m)
  /\ UNCHANGED <<now, reader, state, tickWake, domPrice, lastFrameCursorPrice,
                 lastFrameCursorTs, legendRoute, cpl, cursorPriceText, hCall, hRecv, hEmit,
                 symVars, trainVars, hookVars>>

(***************************************************************************)
(* Privileged context: the message listener and the price cache            *)
(***************************************************************************)
\* a variant of the listener's guard that does not look at the marker, for
\* comparison
AcceptsUnmarked(data) ==
  /\ data.type = "cursor_price"
  /\ FinitePositive(data.price)

\* the guard of the "message" listener
AcceptsMessage(data) ==
  /\ data.rhwidget = TRUE
  /\ data.type = "cursor_price"
  /\ FinitePositive(data.price)

OnMessage ==
  /\ inflight # <<>>
  /\ LET data == Head(inflight)
     IN  IF AcceptsMessage(data)
           THEN /\ lastFrameCursorPrice' = data.price
                /\ lastFrameCursorTs' = now
                /\ hRecv' = [price |-> data.price, at |-> now]
           ELSE UNCHANGED <<lastFrameCursorPrice, lastFrameCursorTs, hRecv>>
  /\ inflight' = Tail(inflight)
  /\ UNCHANGED <<now, reader, state, tickWake, domPrice, legendRoute, cpl,
                 cursorPriceText, hCall, hEmit,
                 symVars, trainVars, hookVars>>

CURSOR_STALE_MS == 800

\* a variant of the staleness test that takes a sample of any age, for
\* comparison
CacheNeverStale(t) == lastFrameCursorPrice # null

\* a variant of the staleness test with the boundary included, for comparison
CacheFreshInclusive(t) ==
  lastFrameCursorPrice # null /\ t - lastFrameCursorTs <= CURSOR_STALE_MS

CacheFresh(t) == lastFrameCursorPrice # null /\ t - lastFrameCursorTs < CURSOR_STALE_MS

detectCursorPrice(t) == IF CacheFresh(t) THEN lastFrameCursorPrice ELSE null

(***************************************************************************)
(* cursorPriceLoop and the .cursor-price field                             *)
(***************************************************************************)
Dash == <<"-">>

\* the decimal digits of a natural number
DigitChar(k) == <<"0","1","2","3","4","5","6","7","8","9">>[k + 1]

RECURSIVE NatToString(_)
NatToString(k) ==
  IF k < 10 THEN <<DigitChar(k)>>
  ELSE NatToString(k \div 10) \o <<DigitChar(k % 10)>>

\* Number.prototype.toFixed(2) of a price in thousandths (none of the prices
\* lies half-way between two cents)
ToFixed2(n) ==
  LET cents == (n + 5) \div 10
  IN  NatToString(cents \div 100) \o <<".">> \o
      <<DigitChar((cents % 100) \div 10), DigitChar(cents % 10)>>

\* setCursorPrice: the new text of .cursor-price
setCursorPrice(price) ==
  IF price = null THEN Dash
  ELSE IF ~FinitePositive(price) THEN Dash
  ELSE ToFixed2(price)

DISPLAY_GRACE_MS == 1500
LOOP_SLEEP_MS == 50
OFF_ROUTE_SLEEP_MS == 800

\* a variant in which the loop never gives up its last good price, for
\* comparison
GraceNever(t) == FALSE

\* does the loop, finding no fresh price, give up its last good one
GraceOver(t) == cpl.lastGood # null /\ t - cpl.lastGoodTs > DISPLAY_GRACE_MS

CursorPriceLoopStep ==
  /\ cpl.wake <= now
  /\ IF ~legendRoute
       THEN /\ cursorPriceText' = setCursorPrice(null)
            /\ cpl' = [lastGood |-> null, lastGoodTs |-> 0,
                       wake |-> now + OFF_ROUTE_SLEEP_MS, iter |-> now]
       ELSE LET price == detectCursorPrice(now)
            IN  IF price # null /\ price # cpl.lastGood
                  THEN /\ cpl' = [lastGood |-> price, lastGoodTs |-> now,
                                  wake |-> now + LOOP_SLEEP_MS, iter |-> now]
                       /\ cursorPriceText' = setCursorPrice(price)
                ELSE IF price # null
                  THEN /\ cpl' = [cpl EXCEPT !.lastGoodTs = now,
                                  !.wake = now + LOOP_SLEEP_MS, !.iter = now]
                       /\ UNCHANGED cursorPriceText
                ELSE IF GraceOver(now)
                  THEN /\ cpl' = [cpl EXCEPT !.lastGood = null,
                                  !.wake = now + LOOP_SLEEP_MS, !.iter = now]
                       /\ cursorPriceText' = setCursorPrice(null)
                ELSE /\ cpl' = [cpl EXCEPT !.wake = now + LOOP_SLEEP_MS, !.iter = now]
                     /\ UNCHANGED cursorPriceText
  /\ UNCHANGED <<now, reader, state, inflight, tickWake, domPrice,
                 lastFrameCursorPrice, lastFrameCursorTs, legendRoute, hCall, hRecv, hEmit,
                 symVars, trainVars, hookVars>>

\* the single-page app navigates to or away from the Legend route
RouteChange ==
  /\ legendRoute' = ~legendRoute
  /\ UNCHANGED <<now, reader, state, inflight, tickWake, domPrice,
                 lastFrameCursorPrice, lastFrameCursorTs, cpl, cursorPriceText,
                 hCall, hRecv, hEmit,
                 symVars, trainVars, hookVars>>

(***************************************************************************)
(* The page as the symbol code sees it                                     *)
(***************************************************************************)
\* texts
Empty == <<>>
TSLA == <<"T","S","L","A">>
AAPL == <<"A","A","P","L">>
NVDA == <<"N","V","D","A">>

\* the elements the symbol code resolves: the element of symbolTypeSelector,
\* Legend's own search input (findLegendSymbolInput) and document.body
ElType == "type"
ElSearch == "search"
ElBody == "body"
NoEl == "none"

\* kind of an element: an enabled text input, a disabled or read-only input,
\* an enabled <input type="file">, a contenteditable element, any other
\* element, or no element
Kinds == {"input", "lockedInput", "fileInput", "editable", "plain", "absent"}

ElKind(d, el) ==
  IF el = ElType THEN d.typeKind
  ELSE IF el = ElSearch THEN (IF d.searchExists THEN "input" ELSE "absent")
  ELSE IF el = ElBody THEN "plain"
  ELSE "absent"

ElText(d, el) ==
  IF el = ElType THEN d.typeText
  ELSE IF el = ElSearch THEN d.searchText
  ELSE IF el = ElBody THEN d.bodyText
  ELSE Empty

WithText(d, el, txt) ==
  IF el = ElType THEN [d EXCEPT !.typeText = txt]
  ELSE IF el = ElSearch THEN [d EXCEPT !.searchText = txt]
  ELSE d

\* elementTextOrValue(el): "" for null, the value of an input, else textContent
elementTextOrValue(d, el) ==
  IF el = NoEl \/ ElKind(d, el) = "absent" THEN Empty ELSE ElText(d, el)

\* isTypeable(el)
isTypeable(d, el) ==
  el # NoEl /\ ElKind(d, el) \in {"input", "lockedInput", "fileInput", "editable"}

\* deepActiveElement()
deepActiveElement(d) == d.active

\* queryAnyFromSelector(sel): document.querySelector of the type selector
queryAnyFromSelector(d, sel) ==
  IF sel = Empty THEN NoEl
  ELSE IF d.typeKind = "absent" THEN NoEl
  ELSE ElType

\* queryFromSelector(sel): is there a visible, enabled element for the click
\* selector
queryFromSelector(d, sel) == sel # Empty /\ d.clickVisible

\* findLegendSymbolInput()
findLegendSymbolInput(d) == IF d.searchExists THEN ElSearch ELSE NoEl

(***************************************************************************)
(* detectActiveSymbol                                                      *)
(***************************************************************************)
\* the viewport: window.innerWidth and window.innerHeight
ViewportW == 800
ViewportH == 600

\* a coordinate divided by the viewport's extent, as training stores it
Normalized(n, d) == [num |-> n, den |-> d]

\* the pixel counts n from 0 to the extent d for which the double (n / d) * d
\* is less than n, so that Math.floor of it is n - 1
FallsShort800 ==
  {29, 57, 58, 113, 114, 115, 116, 201, 203, 205, 207, 226, 228, 230, 232,
   251, 253, 255, 402, 406, 410, 414, 427, 431, 435, 439, 452, 456, 460, 464,
   477, 481, 485, 489, 502, 506, 510}
FallsShort600 ==
  {55, 79, 97, 110, 123, 158, 171, 194, 207, 220, 233, 246, 313, 316, 339,
   342, 365, 388, 391, 414, 417, 440, 463, 466, 489, 492}
FallsShort(n, d) ==
  \/ d = ViewportW /\ n \in FallsShort800
  \/ d = ViewportH /\ n \in FallsShort600

\* Math.floor(f * d) for a stored coordinate f and the extent d it was divided
\* by
FloorTimes(f, d) == IF FallsShort(f.num, f.den) THEN f.num - 1 ELSE f.num

\* rx, ry, rw, rh of detectActiveSymbol
RegionRect(region) ==
  [rx |-> FloorTimes(region.x, ViewportW), ry |-> FloorTimes(region.y, ViewportH),
   rw |-> FloorTimes(region.w, ViewportW), rh |-> FloorTimes(region.h, ViewportH)]

Max(a, b) == IF a >= b THEN a ELSE b
Min(a, b) == IF a <= b THEN a ELSE b

\* the five points detectActiveSymbol samples, clamped to the viewport
SamplePoints(r) ==
  LET at(fx, fy) ==
        [x |-> Min(Max(0, r.rx + (r.rw * fx) \div 10), ViewportW - 1),
         y |-> Min(Max(0, r.ry + (r.rh * fy) \div 10), ViewportH - 1)]
  IN  <<at(5, 5), at(2, 2), at(8, 2), at(2, 8), at(8, 8)>>

\* is the point inside the element's bounding rectangle
Contains(el, pt) ==
  /\ el.left <= pt.x /\ pt.x < el.left + el.w
  /\ el.top <= pt.y /\ pt.y < el.top + el.h

\* the Set detectActiveSymbol fills from document.elementsFromPoint: for each
\* point in turn the page's elements under it, topmost first, each once
RECURSIVE SampledEls(_, _, _, _, _)
SampledEls(pts, els, i, k, acc) ==
  IF i > Len(pts) THEN acc
  ELSE IF k > Len(els) THEN SampledEls(pts, els, i + 1, 1, acc)
  ELSE IF Contains(els[k], pts[i]) /\ \A j \in 1..Len(acc) : acc[j] # els[k]
    THEN SampledEls(pts, els, i, k + 1, Append(acc, els[k]))
    ELSE SampledEls(pts, els, i, k + 1, acc)

\* scoreEl of the region strategy, times the region area: null, or the symbol
\* and its score
RegionArea(region) == region.rw * region.rh

\* a variant that takes no element for part of the widget, for comparison
InWidgetNever(el) == FALSE

\* ui.root.contains(el)
InWidget(el) == el.inWidget

scoreEl(region, el) ==
  LET area == Max(1, RegionArea(region))
      iw == Min(region.rx + region.rw, el.left + el.w) - Max(region.rx, el.left)
      ih == Min(region.ry + region.rh, el.top + el.h) - Max(region.ry, el.top)
      iArea == iw * ih
      rectArea == el.w * el.h
      sym == extractTicker(el.text)
  IN  IF InWidget(el) \/ el.isBody THEN <<>>
      ELSE IF el.w <= 0 \/ el.h <= 0 THEN <<>>
      ELSE IF iw <= 0 \/ ih <= 0 THEN <<>>
      ELSE IF 4 * iArea < area THEN <<>>
      ELSE IF rectArea > RegionArea(region) * 6 THEN <<>>
      ELSE IF sym = Empty THEN <<>>
      ELSE <<[sym |-> sym, score |-> 100 * iArea - rectArea + Len(sym) * 2 * area]>>

RECURSIVE BestScored(_, _, _, _)
BestScored(region, els, k, best) ==
  IF k > Len(els) THEN best
  ELSE LET scored == scoreEl(region, els[k])
       IN  IF scored = <<>> THEN BestScored(region, els, k + 1, best)
           ELSE IF best = <<>> \/ scored[1].score > best[1].score
             THEN BestScored(region, els, k + 1, scored)
             ELSE BestScored(region, els, k + 1, best)

\* strategy 0: the trained region
FromRegion(cfg, d) ==
  IF cfg.activeSymbolRegion = <<>> THEN Empty
  ELSE LET region == RegionRect(cfg.activeSymbolRegion[1])
       IN  IF region.rw > 5 /\ region.rh > 5
             THEN LET elements == SampledEls(SamplePoints(region), d.regionEls, 1, 1, <<>>)
                      best == BestScored(region, elements, 1, <<>>)
                  IN  IF best = <<>> THEN Empty ELSE best[1].sym
             ELSE Empty

\* strategy 0: the trained element path
FromTrained(cfg, d) ==
  IF Len(cfg.activeSymbolPath) > 0 THEN extractTicker(d.pathText) ELSE Empty

\* strategy 1: the bound type element
FromTypeEl(cfg, d) ==
  extractTicker(elementTextOrValue(d, queryAnyFromSelector(d, Trim(cfg.symbolTypeSelector))))

\* strategy 2: the active element
FromActive(d) == extractTicker(elementTextOrValue(d, deepActiveElement(d)))

\* strategy 3: the symbol parameter of the URL
FromUrl(d) == extractTicker(d.url)

\* strategy 4: elements whose attributes hint at a symbol, outside the widget
RECURSIVE FromHints(_, _)
FromHints(nodes, k) ==
  IF k > Len(nodes) THEN Empty
  ELSE LET el == nodes[k]
           sym == extractTicker(el.text)
       IN  IF el.inWidget \/ ~el.visible \/ sym = Empty
             THEN FromHints(nodes, k + 1)
             ELSE sym

\* a variant of the chain in which the last strategy that yields a symbol
\* wins, for comparison
ChainLastWins(results) ==
  IF \E k \in 1..Len(results) : results[k] # Empty
    THEN results[CHOOSE k \in 1..Len(results) :
                   results[k] # Empty /\ \A j \in (k + 1)..Len(results) : results[j] = Empty]
    ELSE Empty

\* the chain: the first strategy that yields a symbol, else the fallback
Chain(results) ==
  IF \E k \in 1..Len(results) : results[k] # Empty
    THEN results[CHOOSE k \in 1..Len(results) :
                   results[k] # Empty /\ \A j \in 1..(k - 1) : results[j] = Empty]
    ELSE Empty

Strategies(cfg, d) ==
  <<FromRegion(cfg, d), FromTrained(cfg, d), FromTypeEl(cfg, d), FromActive(d),
    FromUrl(d), FromHints(d.hints, 1)>>

detectActiveSymbol(cfg, d, last) ==
  LET found == Chain(Strategies(cfg, d))
  IN  IF found # Empty THEN found ELSE last

(***************************************************************************)
(* activateSymbol                                                          *)
(***************************************************************************)
\* el.focus(): focus moves to an element that can take it
Focus(d, el) ==
  IF el # NoEl /\ ElKind(d, el) \in {"input", "editable"}
    THEN [d EXCEPT !.active = el]
    ELSE d

\* writeIntoElement(el, text): the page after it, its result, and the input
\* and change events it dispatched on el
WriteOutcome(d, ok, nInput, nChange) ==
  [d |-> d, ok |-> ok, nInput |-> nInput, nChange |-> nChange]

writeIntoElement(d, el, text) ==
  IF el = NoEl THEN WriteOutcome(d, FALSE, 0, 0)
  ELSE LET d1 == Focus(d, el)
           kind == ElKind(d, el)
       IN  IF kind = "lockedInput" THEN WriteOutcome(d1, FALSE, 0, 0)
           ELSE IF kind = "input" THEN WriteOutcome(WithText(d1, el, text), TRUE, 1, 1)
           ELSE IF kind = "editable" THEN WriteOutcome(WithText(d1, el, text), TRUE, 2, 0)
           ELSE WriteOutcome(d1, FALSE, 0, 0)

\* document.execCommand("insertText", false, s): inserts into the focused
\* element when that is editable, firing its input event, and says whether
\* it did
execInsertText(d, text) ==
  LET el == d.active
  IN  IF ElKind(d, el) \in {"input", "editable"}
        THEN WriteOutcome(WithText(d, el, text), TRUE, 1, 0)
        ELSE WriteOutcome(d, FALSE, 0, 0)

\* a variant in which the execCommand fallback runs after every write, for
\* comparison
AlwaysExecFallback(wrote) == TRUE

\* must the execCommand fallback run after writeIntoElement
NeedsExecFallback(wrote) == ~wrote

IdleCall ==
  [pc |-> "idle", raw |-> Empty, s |-> Empty, typeEl |-> NoEl, fallbackInput |-> NoEl,
   target |-> NoEl, wrote |-> FALSE, result |-> FALSE,
   nInput |-> 0, nChange |-> 0, written |-> Empty, nSuggest |-> 0, keys |-> <<>>]

\* lines 2339-2353 and the sleep(260) that follows: pick the target and write
WritePhase(c, d) ==
  LET active == deepActiveElement(d)
      target == IF isTypeable(d, c.typeEl) THEN c.typeEl
                ELSE IF isTypeable(d, active) THEN active
                ELSE IF isTypeable(d, c.fallbackInput) THEN c.fallbackInput
                ELSE NoEl
      w == writeIntoElement(d, target, c.s)
      x == IF NeedsExecFallback(w.ok) THEN execInsertText(w.d, c.s)
           ELSE WriteOutcome(w.d, w.ok, 0, 0)
      onTarget == IF x.d.active = target THEN x.nInput ELSE 0
  IN  [d |-> x.d,
       c |-> [c EXCEPT !.pc = "sleep260", !.target = target,
                       !.wrote = (x.ok \/ w.ok),
                       !.nInput = w.nInput + onTarget,
                       !.nChange = w.nChange,
                       !.written = ElText(x.d, target)]]

\* the symbols the ticker list offers, as the bridge sent them
ActivateInputs ==
  { TSLA, <<"t","s","l","a"," ">>, <<"5","A","A","P","L">>,
    <<"S","Y","M","B","O","L">>, Empty, <<"1","2","3">> }

\* activateSymbol(symbol) up to its first sleep; focusTo is where the page
\* puts the focus when the focus element is clicked
ActivateStart(raw, focusTo) ==
  /\ call.pc = "idle"
  /\ LET s == extractTicker(raw)
     IN  IF s = Empty
           THEN /\ call' = [IdleCall EXCEPT !.pc = "returned", !.raw = raw,
                                            !.result = FALSE]
                /\ UNCHANGED <<lastActivatedSymbol, dom>>
           ELSE LET d0 == IF dom.url = Empty THEN [dom EXCEPT !.url = s] ELSE dom
                    clickEl == queryFromSelector(d0, Trim(currentCfg.symbolClickSelector))
                    typeEl == queryAnyFromSelector(d0, Trim(currentCfg.symbolTypeSelector))
                    fallbackInput == findLegendSymbolInput(d0)
                    hasFocusEl == clickEl \/ typeEl # NoEl \/ fallbackInput # NoEl
                    c0 == [IdleCall EXCEPT !.raw = raw, !.s = s, !.typeEl = typeEl,
                                           !.fallbackInput = fallbackInput]
                IN  /\ lastActivatedSymbol' = s
                    /\ IF hasFocusEl
                         THEN /\ focusTo = ElBody \/ ElKind(d0, focusTo) \in {"input", "editable"}
                              /\ dom' = [d0 EXCEPT !.active = focusTo]
                              /\ call' = [c0 EXCEPT !.pc = "sleep80"]
                         ELSE /\ focusTo = d0.active
                              /\ LET r == WritePhase(c0, d0)
                                 IN  dom' = r.d /\ call' = r.c
  /\ UNCHANGED <<currentCfg, clipboard, trade, statusText, hOk, priceVars, trainVars, hookVars>>

\* after sleep(80)
ActivateWrite ==
  /\ call.pc = "sleep80"
  /\ LET r == WritePhase(call, dom)
     IN  dom' = r.d /\ call' = r.c
  /\ UNCHANGED <<currentCfg, lastActivatedSymbol, clipboard, trade, statusText, hOk,
                 priceVars, trainVars, hookVars>>

\* after sleep(260): the first search for a suggestion; hit says whether the
\* page shows a clickable suggestion with the symbol
ActivateSearch1(hit) ==
  /\ call.pc = "sleep260"
  /\ dom' = Focus(dom, call.target)
  /\ call' = IF hit
               THEN [call EXCEPT !.pc = "returned", !.result = TRUE,
                                 !.nSuggest = call.nSuggest + 1]
               ELSE [call EXCEPT !.pc = "sleep140",
                                 !.keys = Append(call.keys, "ArrowDown")]
  /\ UNCHANGED <<currentCfg, lastActivatedSymbol, clipboard, trade, statusText, hOk,
                 priceVars, trainVars, hookVars>>

\* after sleep(140): the second search, Enter, and the clipboard fallback
ActivateSearch2(hit) ==
  /\ call.pc = "sleep140"
  /\ IF hit
       THEN /\ call' = [call EXCEPT !.pc = "returned", !.result = TRUE,
                                    !.nSuggest = call.nSuggest + 1]
            /\ UNCHANGED dom
       ELSE /\ dom' = Focus(dom, call.target)
            /\ call' = [call EXCEPT !.keys = Append(call.keys, "Enter"),
                                    !.pc = IF call.wrote THEN "returned" ELSE "clipboard",
                                    !.result = call.wrote]
  /\ UNCHANGED <<currentCfg, lastActivatedSymbol, clipboard, trade, statusText, hOk,
                 priceVars, trainVars, hookVars>>

\* navigator.clipboard.writeText(s) settles, fulfilled or rejected
ActivateClipboard(fulfilled) ==
  /\ call.pc = "clipboard"
  /\ clipboard' = IF fulfilled THEN call.s ELSE clipboard
  /\ call' = [call EXCEPT !.pc = "returned", !.result = FALSE]
  /\ UNCHANGED <<currentCfg, lastActivatedSymbol, dom, trade, statusText, hOk,
                 priceVars, trainVars, hookVars>>

\* the ticker's click handler resumes with the result of activateSymbol
ActivateReturn ==
  /\ call.pc = "returned"
  /\ statusText' = IF call.result THEN "activated" ELSE "copied"
  /\ hOk' = IF call.result THEN hOk \cup {call.s} ELSE hOk
  /\ call' = [call EXCEPT !.pc = "sleep600"]
  /\ UNCHANGED <<currentCfg, lastActivatedSymbol, dom, clipboard, trade, priceVars, trainVars,
                 hookVars>>

\* after sleep(600)
ActivateDone ==
  /\ call.pc = "sleep600"
  /\ statusText' = "live"
  /\ call' = [call EXCEPT !.pc = "idle"]
  /\ UNCHANGED <<currentCfg, lastActivatedSymbol, dom, clipboard, trade, hOk,
                 priceVars, trainVars, hookVars>>

(***************************************************************************)
(* activateSymbol, timed: calls that overlap                               *)
(***************************************************************************)
\* at most MaxRuns calls of activateSymbol are made, the last one no later
\* than MaxStartRun; the clock moves in steps of QuantumRun up to MaxTimeRun
MaxRuns == 2
QuantumRun == 20
MaxStartRun == 40
MaxTimeRun == 540

\* the delays of activateSymbol, ms
FOCUS_DELAY_MS == 80
SETTLE_DELAY_MS == 260
ARROW_DELAY_MS == 140

\* a step of call number run, made at time at; text is the symbol it is for
Step(run, step, at, text) == [run |-> run, step |-> step, at |-> at, text |-> text]

\* a call of activateSymbol: the record of its locals, its number, the time
\* its sleep ends and the place of that timer in the order the timers were
\* set
NewRun(id, raw, s, typeEl, fallbackInput) ==
  [pc |-> "idle", raw |-> raw, s |-> s, typeEl |-> typeEl, fallbackInput |-> fallbackInput,
   target |-> NoEl, wrote |-> FALSE, result |-> FALSE,
   nInput |-> 0, nChange |-> 0, written |-> Empty, nSuggest |-> 0, keys |-> <<>>,
   id |-> id, wake |-> 0, reg |-> 0]

\* a variant of the timer in which a sleep ends at once, for comparison
SleepOverAtOnce(c, t) == TRUE

\* a variant of the timer that never fires, for comparison
SleepNeverOver(c, t) == FALSE

\* has the timer of the sleep of call c fired by time t: timers of the same
\* delay fire in the order they were set
SleepOver(c, t) ==
  /\ c.wake <= t
  /\ \A j \in 1..Len(runs) : ~(runs[j].pc = c.pc /\ runs[j].reg < c.reg)

\* is a sleep of some call over
RunDue ==
  \E i \in 1..Len(runs) :
    runs[i].pc \in {"sleep80", "sleep260", "sleep140"} /\ runs[i].wake <= now

\* setNativeValue(input, value) with a value that is not "": the setter of
\* value throws InvalidStateError on an <input type="file">
SetNativeValueThrows(d, el) == el # NoEl /\ ElKind(d, el) = "fileInput"

\* lines 2339-2353 for the call c at time t, and its sleep(260); when
\* setNativeValue throws inside writeIntoElement nothing catches it, and the
\* promise of the call is rejected
WriteStep(c, d, t) ==
  LET r == WritePhase(c, d)
  IN  IF SetNativeValueThrows(d, r.c.target)
        THEN [d |-> d, c |-> [c EXCEPT !.pc = "threw", !.target = r.c.target],
              steps |-> <<Step(c.id, "throw", t, c.s)>>]
        ELSE [d |-> r.d,
              c |-> [r.c EXCEPT !.wake = t + SETTLE_DELAY_MS, !.reg = Len(hSteps) + 1],
              steps |-> <<Step(c.id, "write", t, c.s)>>]

\* activateSymbol(symbol) up to its first sleep, or to its end for a symbol
\* that is none; focusTo is where the page puts the focus when the focus
\* element is clicked
RunStart(raw, focusTo) ==
  /\ Len(runs) < MaxRuns
  /\ now <= MaxStartRun
  /\ LET s == extractTicker(raw)
         id == Len(runs) + 1
     IN  IF s = Empty
           THEN /\ focusTo = dom.active
                /\ runs' = Append(runs, [NewRun(id, raw, s, NoEl, NoEl) EXCEPT
                                           !.pc = "returned", !.result = FALSE])
                /\ hSteps' = hSteps \o <<Step(id, "return", now, s)>>
                /\ UNCHANGED <<lastActivatedSymbol, dom>>
           ELSE LET d0 == IF dom.url = Empty THEN [dom EXCEPT !.url = s] ELSE dom
                    clickEl == queryFromSelector(d0, Trim(currentCfg.symbolClickSelector))
                    typeEl == queryAnyFromSelector(d0, Trim(currentCfg.symbolTypeSelector))
                    fallbackInput == findLegendSymbolInput(d0)
                    hasFocusEl == clickEl \/ typeEl # NoEl \/ fallbackInput # NoEl
                    c0 == NewRun(id, raw, s, typeEl, fallbackInput)
                IN  /\ lastActivatedSymbol' = s
                    /\ IF hasFocusEl
                         THEN /\ focusTo = ElBody \/ ElKind(d0, focusTo) \in {"input", "editable"}
                              /\ dom' = [d0 EXCEPT !.active = focusTo]
                              /\ runs' = Append(runs, [c0 EXCEPT !.pc = "sleep80",
                                                         !.wake = now + FOCUS_DELAY_MS,
                                                         !.reg = Len(hSteps) + 1])
                              /\ hSteps' = hSteps \o <<Step(id, "click", now, s)>>
                         ELSE /\ focusTo = d0.active
                              /\ LET r == WriteStep(c0, d0, now)
                                 IN  /\ dom' = r.d
                                     /\ runs' = Append(runs, r.c)
                                     /\ hSteps' = hSteps \o r.steps
  /\ UNCHANGED <<hSel, hClass, hFit, hKey, canvases, hooked, lastMouseClientY, mouseY_canvas,
                 hDraw, hPass, currentCfg, call, clipboard, trade, statusText, hOk,
                 priceVars, trainVars>>

\* call i after its sleep(80)
RunWrite(i) ==
  /\ i <= Len(runs)
  /\ runs[i].pc = "sleep80" /\ SleepOver(runs[i], now)
  /\ LET r == WriteStep(runs[i], dom, now)
     IN  /\ dom' = r.d
         /\ runs' = [runs EXCEPT ![i] = r.c]
         /\ hSteps' = hSteps \o r.steps
  /\ UNCHANGED <<hSel, hClass, hFit, hKey, canvases, hooked, lastMouseClientY, mouseY_canvas,
                 hDraw, hPass, currentCfg, lastActivatedSymbol, call, clipboard, trade,
                 statusText, hOk, priceVars, trainVars>>

\* call i after its sleep(260): the first search for a suggestion; hit says
\* whether findAndClickSuggestion finds an element with the symbol and its
\* click() returns
RunSearch1(i, hit) ==
  /\ i <= Len(runs)
  /\ runs[i].pc = "sleep260" /\ SleepOver(runs[i], now)
  /\ dom' = Focus(dom, runs[i].target)
  /\ LET c == runs[i]
     IN  IF hit
           THEN /\ runs' = [runs EXCEPT ![i] = [c EXCEPT !.pc = "returned", !.result = TRUE,
                                                         !.nSuggest = c.nSuggest + 1]]
                /\ hSteps' = hSteps \o <<Step(i, "search1", now, c.s),
                                         Step(i, "suggestion", now, c.s),
                                         Step(i, "return", now, c.s)>>
           ELSE /\ runs' = [runs EXCEPT ![i] = [c EXCEPT !.pc = "sleep140",
                                                         !.keys = Append(c.keys, "ArrowDown"),
                                                         !.wake = now + ARROW_DELAY_MS,
                                                         !.reg = Len(hSteps) + 1]]
                /\ hSteps' = hSteps \o <<Step(i, "search1", now, c.s),
                                         Step(i, "ArrowDown", now, c.s)>>
  /\ UNCHANGED <<hSel, hClass, hFit, hKey, canvases, hooked, lastMouseClientY, mouseY_canvas,
                 hDraw, hPass, currentCfg, lastActivatedSymbol, call, clipboard, trade,
                 statusText, hOk, priceVars, trainVars>>

\* call i after its sleep(140): the second search, Enter, and the return or
\* the call of navigator.clipboard.writeText
RunSearch2(i, hit) ==
  /\ i <= Len(runs)
  /\ runs[i].pc = "sleep140" /\ SleepOver(runs[i], now)
  /\ LET c == runs[i]
     IN  IF hit
           THEN /\ runs' = [runs EXCEPT ![i] = [c EXCEPT !.pc = "returned", !.result = TRUE,
                                                         !.nSuggest = c.nSuggest + 1]]
                /\ hSteps' = hSteps \o <<Step(i, "search2", now, c.s),
                                         Step(i, "suggestion", now, c.s),
                                         Step(i, "return", now, c.s)>>
                /\ UNCHANGED dom
           ELSE /\ dom' = Focus(dom, c.target)
                /\ runs' = [runs EXCEPT ![i] =
                              [c EXCEPT !.keys = Append(c.keys, "Enter"),
                                        !.pc = IF c.wrote THEN "returned" ELSE "clipboard",
                                        !.result = c.wrote]]
                /\ hSteps' = hSteps \o <<Step(i, "search2", now, c.s),
                                         Step(i, "Enter", now, c.s)>>
                                   \o IF c.wrote THEN <<Step(i, "return", now, c.s)>>
                                      ELSE <<Step(i, "clipboard", now, c.s)>>
  /\ UNCHANGED <<hSel, hClass, hFit, hKey, canvases, hooked, lastMouseClientY, mouseY_canvas,
                 hDraw, hPass, currentCfg, lastActivatedSymbol, call, clipboard, trade,
                 statusText, hOk, priceVars, trainVars>>

\* navigator.clipboard.writeText(s) of call i settles, fulfilled or rejected
RunClipboard(i, fulfilled) ==
  /\ i <= Len(runs)
  /\ runs[i].pc = "clipboard"
  /\ clipboard' = IF fulfilled THEN runs[i].s ELSE clipboard
  /\ runs' = [runs EXCEPT ![i] = [runs[i] EXCEPT !.pc = "returned", !.result = FALSE]]
  /\ hSteps' = hSteps \o <<Step(i, "return", now, runs[i].s)>>
  /\ UNCHANGED <<hSel, hClass, hFit, hKey, canvases, hooked, lastMouseClientY, mouseY_canvas,
                 hDraw, hPass, currentCfg, lastActivatedSymbol, dom, call, trade,
                 statusText, hOk, priceVars, trainVars>>

(***************************************************************************)
(* Descriptors: buildSelectorFor, buildSelectorPath, queryByPath           *)
(***************************************************************************)
\* an element of a page: its tag, its id and its data-testid ("" for none),
\* its parentElement (0 for none), the host of the shadow root its tree hangs
\* from (0 for the document tree), and whether it hosts an open shadow root.
\* A page is the sequence of its elements, each tree in document order;
\* element 1 is document.body
PageEl(tag, id, testid, parent, tree, shadow) ==
  [tag |-> tag, id |-> id, testid |-> testid, parent |-> parent, tree |-> tree,
   shadow |-> shadow]

BodyEl == 1

\* the selectors buildSelectorFor makes: "", #id, tag[data-testid="v"], and
\* the path t:nth-of-type(i) > ... > t:nth-of-type(i)
NoSelector == [kind |-> "none"]
IdSelector(id) == [kind |-> "id", id |-> id]
AttrSelector(tag, v) == [kind |-> "attr", tag |-> tag, v |-> v]
StructSelector(parts) == [kind |-> "struct", parts |-> parts]

\* siblings.indexOf(cur) + 1: the place of n among the children of its parent
\* that have its tag
NthOfType(P, n) ==
  Cardinality({m \in 1..n : /\ P[m].parent = P[n].parent
                            /\ P[m].tree = P[n].tree
                            /\ P[m].tag = P[n].tag})

\* parts.length < 7 fails
PartsLimitReached(parts) == Len(parts) >= 7

\* the while loop of buildSelectorFor
RECURSIVE StructParts(_, _, _)
StructParts(P, cur, parts) ==
  IF cur = 0 \/ cur = BodyEl \/ PartsLimitReached(parts) THEN parts
  ELSE IF P[cur].parent = 0 THEN parts
  ELSE StructParts(P, P[cur].parent,
                   <<[tag |-> P[cur].tag, idx |-> NthOfType(P, cur)]>> \o parts)

\* buildSelectorFor(el) for element n of page P
buildSelectorForNode(P, n) ==
  IF P[n].id # Empty THEN IdSelector(P[n].id)
  ELSE IF P[n].testid # Empty THEN AttrSelector(P[n].tag, P[n].testid)
  ELSE LET parts == StructParts(P, n, <<>>)
       IN  IF parts = <<>> THEN NoSelector ELSE StructSelector(parts)

\* the while loop of buildSelectorPath: the selectors of the hosts, outermost
\* first
RECURSIVE HostSelectors(_, _, _)
HostSelectors(P, host, parts) ==
  IF host = 0 THEN parts
  ELSE LET hostSel == buildSelectorForNode(P, host)
       IN  HostSelectors(P, P[host].tree,
                         IF hostSel # NoSelector THEN <<hostSel>> \o parts ELSE parts)

\* buildSelectorPath(el) for element n of page P
buildSelectorPathNode(P, n) ==
  LET own == buildSelectorForNode(P, n)
  IN  HostSelectors(P, P[n].tree, IF own # NoSelector THEN <<own>> ELSE <<>>)

\* does element m match the first k parts of a structural selector, the k-th
\* being its own
RECURSIVE MatchParts(_, _, _, _)
MatchParts(P, m, parts, k) ==
  /\ P[m].tag = parts[k].tag
  /\ NthOfType(P, m) = parts[k].idx
  /\ k = 1 \/ (P[m].parent # 0 /\ MatchParts(P, P[m].parent, parts, k - 1))

\* element.matches(sel)
Matches(P, m, sel) ==
  IF sel.kind = "id" THEN P[m].id = sel.id
  ELSE IF sel.kind = "attr" THEN P[m].tag = sel.tag /\ P[m].testid = sel.v
  ELSE IF sel.kind = "struct" THEN MatchParts(P, m, sel.parts, Len(sel.parts))
  ELSE FALSE

\* is m below e in the tree of e
RECURSIVE IsBelow(_, _, _)
IsBelow(P, m, e) ==
  P[m].parent # 0 /\ (P[m].parent = e \/ IsBelow(P, P[m].parent, e))

\* what a query looks through: the document, the shadow root of a host, or
\* the descendants of an element
DocRoot == [kind |-> "document", at |-> 0]
ShadowRootOf(h) == [kind |-> "shadow", at |-> h]
ElementRoot(e) == [kind |-> "element", at |-> e]

InRoot(P, m, root) ==
  IF root.kind = "document" THEN P[m].tree = 0
  ELSE IF root.kind = "shadow" THEN P[m].tree = root.at
  ELSE IsBelow(P, m, root.at)

\* root.querySelector(sel): the first match in document order, 0 for null
querySelector(P, root, sel) ==
  LET hits == {m \in 1..Len(P) : InRoot(P, m, root) /\ Matches(P, m, sel)}
  IN  IF hits = {} THEN 0 ELSE CHOOSE m \in hits : \A o \in hits : m <= o

\* the for loop of queryByPath from its i-th selector on
RECURSIVE QueryFrom(_, _, _, _)
QueryFrom(P, path, i, root) ==
  LET node == querySelector(P, root, path[i])
  IN  IF path[i] = NoSelector THEN 0
      ELSE IF node = 0 THEN 0
      ELSE IF i = Len(path) THEN node
      ELSE QueryFrom(P, path, i + 1,
                     IF P[node].shadow THEN ShadowRootOf(node) ELSE ElementRoot(node))

\* queryByPath(path), 0 for null
queryByPath(P, path) == IF path = <<>> THEN 0 ELSE QueryFrom(P, path, 1, DocRoot)

\* a descriptor of element el of a page: not yet built, built, or replayed
\* with the element found
Descriptor(page, el, pc, path, node) ==
  [page |-> page, el |-> el, pc |-> pc, path |-> path, node |-> node]

NoDescriptor == Descriptor(<<>>, 0, "none", <<>>, 0)

\* the training stores buildSelectorPath(target) of the element clicked
BuildDescriptor ==
  /\ hSel.pc = "page"
  /\ hSel' = [hSel EXCEPT !.pc = "built", !.path = buildSelectorPathNode(hSel.page, hSel.el)]
  /\ UNCHANGED <<canvases, hooked, lastMouseClientY, mouseY_canvas, hDraw, hPass, hClass, hFit,
                 hKey, runs, hSteps, priceVars, symVars, trainVars>>

\* detectActiveSymbol replays the stored path on the unchanged page
ReplayDescriptor ==
  /\ hSel.pc = "built"
  /\ hSel' = [hSel EXCEPT !.pc = "replayed", !.node = queryByPath(hSel.page, hSel.path)]
  /\ UNCHANGED <<canvases, hooked, lastMouseClientY, mouseY_canvas, hDraw, hPass, hClass, hFit,
                 hKey, runs, hSteps, priceVars, symVars, trainVars>>

(***************************************************************************)
(* executeTrade                                                            *)
(***************************************************************************)
IdleTrade == [pc |-> "idle", side |-> "", symbol |-> Empty, req |-> <<>>, status |-> ""]

\* a variant in which executeTrade goes on with any symbol, for comparison
AnySymbolActive(symbol) == TRUE

\* may executeTrade go past its symbol check
HasActiveSymbol(symbol) == symbol # Empty

\* the body sent to /api/trade/<side>; sampleAt is history: when the sample
\* behind stop_ref_price was received
Payload(symbol, side, orderType, limitOffset, autoStop, t) ==
  LET cursorPrice == detectCursorPrice(t)
  IN  [symbol |-> symbol, side |-> side, order_type |-> orderType,
       limit_offset |-> limitOffset,
       auto_stop |-> (side = "buy" /\ autoStop),
       stop_ref_price |-> IF side = "buy" /\ autoStop THEN cursorPrice ELSE null,
       sentAt |-> t,
       sampleAt |-> hRecv.at]

\* executeTrade(ui, side) up to its first await, for a detected symbol and the
\* order settings read from the widget; qtyOk: the buy amount is positive
ExecuteTradeWith(symbol, side, orderType, limitOffset, autoStop, qtyOk) ==
  LET t0 == [IdleTrade EXCEPT !.side = side, !.symbol = symbol]
  IN  IF ~HasActiveSymbol(symbol)
        THEN /\ statusText' = "no active symbol"
             /\ trade' = [t0 EXCEPT !.pc = "warned", !.status = "no active symbol"]
      ELSE IF orderType = "limit" /\ limitOffset = Empty
        THEN /\ statusText' = "offset needed"
             /\ trade' = [t0 EXCEPT !.pc = "warned", !.status = "offset needed"]
      ELSE IF side = "buy" /\ ~qtyOk
        THEN /\ trade' = [t0 EXCEPT !.pc = "noAmount", !.status = "buy amount needed"]
             /\ UNCHANGED statusText
      ELSE /\ trade' = [t0 EXCEPT !.pc = "fetch", !.status = "submitting",
                          !.req = <<Payload(symbol, side, orderType, limitOffset,
                                            autoStop, now)>>]
           /\ UNCHANGED statusText

OrderTypes == {"market", "limit"}
Offsets == {Empty, <<"0",".","0","5">>}

\* the hotkey handler on the Legend route: executeTrade for either side
ExecuteTrade ==
  /\ legendRoute
  /\ trade.pc = "idle"
  /\ \E symbol \in {detectActiveSymbol(currentCfg, dom, lastActivatedSymbol)},
        side \in {"buy", "sell"}, orderType \in OrderTypes, limitOffset \in Offsets,
        autoStop \in BOOLEAN, qtyOk \in BOOLEAN :
       ExecuteTradeWith(symbol, side, orderType, limitOffset, autoStop, qtyOk)
  /\ UNCHANGED <<currentCfg, lastActivatedSymbol, dom, call, clipboard, hOk, priceVars, trainVars,
                 hookVars>>

(***************************************************************************)
(* Hotkeys: the keydown listener of installHotkeys                         *)
(***************************************************************************)
\* an element a key can be pressed in: its name, the tree it is in (the
\* document, or the shadow tree of the widget), what it is, and whether
\* .rh-momo-widget contains it
KeyElement(name, tree, kind, inWrap) ==
  [name |-> name, tree |-> tree, kind |-> kind, inWrap |-> inWrap]

\* the host of the widget's shadow root, a div in the document
WidgetHost == KeyElement("host", "document", "plain", FALSE)

\* a variant of the target that is the element the key was pressed in, for
\* comparison
EventOrigin(origin) == origin

\* e.target as a listener on document sees it: an event from inside the
\* shadow tree is retargeted to the host of the shadow root
EventTarget(origin) == IF origin.tree = "shadow" THEN WidgetHost ELSE origin

\* a keydown event
KeyEvent(key, code, altKey, shiftKey, ctrlKey) ==
  [key |-> key, code |-> code, altKey |-> altKey, shiftKey |-> shiftKey, ctrlKey |-> ctrlKey]

hotkeys ==
  [buy |-> KeyEvent("!", "Digit1", FALSE, TRUE, FALSE),
   sell |-> KeyEvent("@", "Digit2", FALSE, TRUE, FALSE)]

\* isEditableTarget(target)
isEditableTarget(target) == target.kind \in {"input", "textarea", "editable"}

\* matchesHotkey(e, spec); the keys of the model are their own lower case
matchesHotkey(e, spec) ==
  /\ e.key = spec.key \/ e.code = spec.code
  /\ e.altKey = spec.altKey
  /\ e.shiftKey = spec.shiftKey
  /\ e.ctrlKey = spec.ctrlKey

\* the side the listener trades for a key pressed in origin, "none" when it
\* returns without a trade
HotkeySide(origin, e, onLegend) ==
  LET target == EventTarget(origin)
  IN  IF ~onLegend THEN "none"
      ELSE IF target.inWrap THEN "none"
      ELSE IF isEditableTarget(target) THEN "none"
      ELSE IF matchesHotkey(e, hotkeys.buy) THEN "buy"
      ELSE IF matchesHotkey(e, hotkeys.sell) THEN "sell"
      ELSE "none"

NoKey ==
  [n |-> 0, origin |-> WidgetHost, e |-> KeyEvent("a", "KeyA", FALSE, FALSE, FALSE),
   onLegend |-> FALSE, side |-> "none"]

\* a key goes down in origin while no trade is under way: the listener runs,
\* and executeTrade up to its first await when it is called
KeyDown(origin, e) ==
  /\ trade.pc = "idle"
  /\ \E side \in {HotkeySide(origin, e, legendRoute)} :
       /\ hKey' = [n |-> 1 - hKey.n, origin |-> origin, e |-> e, onLegend |-> legendRoute,
                   side |-> side]
       /\ IF side = "none" THEN UNCHANGED <<statusText, trade>>
          ELSE \E symbol \in {detectActiveSymbol(currentCfg, dom, lastActivatedSymbol)},
                  orderType \in OrderTypes, limitOffset \in Offsets, autoStop \in BOOLEAN,
                  qtyOk \in BOOLEAN :
                 ExecuteTradeWith(symbol, side, orderType, limitOffset, autoStop, qtyOk)
  /\ UNCHANGED <<currentCfg, lastActivatedSymbol, dom, call, clipboard, hOk, priceVars, trainVars,
                 canvases, hooked, lastMouseClientY, mouseY_canvas, hDraw, hPass, hClass, hFit,
                 runs, hSteps, hSel>>

\* the bridge answers, or the request fails
TradeResponse(outcome) ==
  /\ trade.pc = "fetch"
  /\ statusText' = outcome
  /\ trade' = [trade EXCEPT !.pc = "sleep900", !.status = outcome]
  /\ UNCHANGED <<currentCfg, lastActivatedSymbol, dom, call, clipboard, hOk, priceVars, trainVars,
                 hookVars>>

\* after the sleep that ends executeTrade
TradeDone ==
  /\ trade.pc \in {"warned", "noAmount", "sleep900"}
  /\ statusText' = IF trade.pc = "noAmount" THEN statusText ELSE "live"
  /\ trade' = IdleTrade
  /\ UNCHANGED <<currentCfg, lastActivatedSymbol, dom, call, clipboard, hOk, priceVars, trainVars,
                 hookVars>>

(***************************************************************************)
(* The page changes under the widget                                       *)
(***************************************************************************)
\* the single-page app rewrites the symbol parameter of its URL
PageNavigate(url) ==
  /\ url # dom.url
  /\ dom' = [dom EXCEPT !.url = url]
  /\ UNCHANGED <<currentCfg, lastActivatedSymbol, call, clipboard, trade, statusText,
                 hOk, priceVars, trainVars, hookVars>>

\* the user or the page moves the focus
PageFocus(el) ==
  /\ el # dom.active
  /\ el = ElBody \/ ElKind(dom, el) \in {"input", "editable"}
  /\ dom' = [dom EXCEPT !.active = el]
  /\ UNCHANGED <<currentCfg, lastActivatedSymbol, call, clipboard, trade, statusText,
                 hOk, priceVars, trainVars, hookVars>>

(***************************************************************************)
(* The pages and configurations the symbol code starts from                *)
(***************************************************************************)
\* what the page can hold
TypeSelector == <<"#","s">>
ClickSelector == <<"#","c">>
PathSelector == <<"#","p">>
NVDA_PRICE == <<"N","V","D","A"," ","2","1","2",".","5","0">>
BodyTexts == {Empty, <<"B","u","y"," ","a","m","d"," ","n","o","w">>}
UrlTexts == {Empty, <<"5","M","S","F","T">>}
PathTexts == {<<"b","r","k",".","b">>}
\* a region trained earlier: 60 by 20 px at (100, 100)
TrainedRegion ==
  [x |-> Normalized(100, ViewportW), y |-> Normalized(100, ViewportH),
   w |-> Normalized(60, ViewportW), h |-> Normalized(20, ViewportH)]
\* the elements of the page around that place, topmost first
RegionEls ==
  << [inWidget |-> TRUE, isBody |-> FALSE, left |-> 105, top |-> 102, w |-> 50, h |-> 16,
      text |-> <<"W","I","D","G","E","T">>],
     [inWidget |-> FALSE, isBody |-> FALSE, left |-> 105, top |-> 102, w |-> 50, h |-> 16,
      text |-> NVDA_PRICE],
     [inWidget |-> FALSE, isBody |-> FALSE, left |-> 70, top |-> 90, w |-> 120, h |-> 40,
      text |-> <<"S","Y","M","B","O","L"," ","N","V","D","A"," ","G","O","O","G","L">>],
     [inWidget |-> FALSE, isBody |-> TRUE, left |-> 0, top |-> 0, w |-> 800, h |-> 600,
      text |-> <<"Q","Q","Q">>] >>
Hints ==
  << [inWidget |-> TRUE, visible |-> TRUE, text |-> TSLA],
     [inWidget |-> FALSE, visible |-> FALSE, text |-> AAPL],
     [inWidget |-> FALSE, visible |-> TRUE, text |-> <<"S","y","m","b","o","l">>],
     [inWidget |-> FALSE, visible |-> TRUE, text |-> <<"n","g">>] >>

(***************************************************************************)
(* Configuration: chrome.storage.local, loadConfig, initConfig, pollLoop   *)
(***************************************************************************)
SearchSelector == <<"#","q">>
\* the selector an earlier version stored under the key symbolSelector
LegacySelector == <<"#","o">>

\* the binding keys of DEFAULTS
DEFAULTS ==
  [symbolClickSelector |-> Empty, symbolTypeSelector |-> Empty,
   activeSymbolPath |-> <<>>, activeSymbolRegion |-> <<>>]

\* the value stored under a key, or the default given for it
Stored(v, default) == IF v = <<>> THEN default ELSE v[1]

\* loadConfig(): chrome.storage.local.get({ ...DEFAULTS, symbolSelector: "" })
loadConfig(st) ==
  [symbolClickSelector |-> Stored(st.symbolClickSelector, DEFAULTS.symbolClickSelector),
   symbolTypeSelector |-> Stored(st.symbolTypeSelector, DEFAULTS.symbolTypeSelector),
   activeSymbolPath |-> Stored(st.activeSymbolPath, DEFAULTS.activeSymbolPath),
   activeSymbolRegion |-> Stored(st.activeSymbolRegion, DEFAULTS.activeSymbolRegion),
   symbolSelector |-> Stored(st.symbolSelector, Empty)]

\* { ...DEFAULTS, ...cfg }: the keys of DEFAULTS and of cfg, and no other
Merged(cfg) ==
  [symbolClickSelector |-> cfg.symbolClickSelector,
   symbolTypeSelector |-> cfg.symbolTypeSelector,
   activeSymbolPath |-> cfg.activeSymbolPath,
   activeSymbolRegion |-> cfg.activeSymbolRegion,
   cursorPriceAxisRegion |-> <<>>, cursorPricePath |-> <<>>]

\* pollLoop's reload: the merge, then the legacy selector where none is bound
Reloaded(cfg) ==
  LET m == Merged(cfg)
  IN  [m EXCEPT
         !.symbolClickSelector =
            IF m.symbolClickSelector = Empty /\ cfg.symbolSelector # Empty
              THEN cfg.symbolSelector ELSE m.symbolClickSelector,
         !.symbolTypeSelector =
            IF m.symbolTypeSelector = Empty /\ cfg.symbolSelector # Empty
              THEN cfg.symbolSelector ELSE m.symbolTypeSelector]

\* a storage call waiting for its answer
GetCall(kind) == [op |-> "get", kind |-> kind, sid |-> 0, a |-> <<>>, b |-> <<>>]
SetCall(kind, sid, a, b) == [op |-> "set", kind |-> kind, sid |-> sid, a |-> a, b |-> b]

(***************************************************************************)
(* Training: bindSymbolInput, bindActiveSymbol, bindCursorPriceAxis,       *)
(* bindCursorPriceElement                                                  *)
(***************************************************************************)
\* at most MaxSessions trainings are started, at most MaxQueue storage calls
\* wait for their answer, at most MaxSleeping click handlers sleep and at most
\* MaxLiveTimers status resets are pending at once
MaxSessions == 2
MaxQueue == 2
MaxSleeping == 1
MaxLiveTimers == 1

\* the smallest width and height of a drag that trains a region, px
MIN_DRAG_PX == 6

PointKinds == {"symbolInput", "priceElement"}
RegionKinds == {"activeSymbol", "priceAxis"}

NoSession == "none"

\* the text setStatus shows when a training starts and when it ends
ModeStatus(kind) ==
  IF kind = "symbolInput" THEN "bind mode"
  ELSE IF kind = "activeSymbol" THEN "train mode"
  ELSE IF kind = "priceElement" THEN "cursor bind"
  ELSE "price train"

DoneStatus(kind) ==
  IF kind = "symbolInput" THEN "bound"
  ELSE IF kind = "activeSymbol" THEN "trained"
  ELSE IF kind = "priceElement" THEN "cursor bound"
  ELSE "price axis trained"

\* buildSelectorFor(el): "" for no element and for document.body
buildSelectorFor(d, el) ==
  IF el = ElType /\ d.typeKind # "absent" THEN TypeSelector
  ELSE IF el = ElSearch /\ d.searchExists THEN SearchSelector
  ELSE Empty

\* buildSelectorPath(el) of an element outside any shadow root
buildSelectorPath(d, el) ==
  IF buildSelectorFor(d, el) = Empty THEN <<>> ELSE <<buildSelectorFor(d, el)>>

\* a variant of the drag threshold that accepts every drag, for comparison
NeverTooSmall(w, h) == FALSE

\* onUp: w < 6 || h < 6
TooSmall(w, h) == w < MIN_DRAG_PX \/ h < MIN_DRAG_PX

Abs(n) == IF n < 0 THEN 0 - n ELSE n

\* onUp: the region of a drag from start to the pointer's position at release
DragRegion(start, up) ==
  [x |-> Normalized(Min(start.x, up.x), ViewportW),
   y |-> Normalized(Min(start.y, up.y), ViewportH),
   w |-> Normalized(Abs(up.x - start.x), ViewportW),
   h |-> Normalized(Abs(up.y - start.y), ViewportH)]

\* a widget button starts a training: setStatus, then the bind function
\* installs its overlay and its listeners
StartTraining(kind) ==
  /\ session.kind = NoSession
  /\ session.sid < MaxSessions
  /\ session' = [kind |-> kind, sid |-> session.sid + 1, start |-> <<>>]
  /\ widgetStatus' = ModeStatus(kind)
  /\ UNCHANGED <<storage, sleeping, storageQ, poll, liveTimers, hTrain, priceVars,
                 symVars, hookVars>>

\* cleanup() of the session numbered sid: its overlay and its listeners go
Cleanup(sid) ==
  IF session.sid = sid THEN [session EXCEPT !.kind = NoSession, !.start = <<>>]
  ELSE session

\* onKey with Escape, of any of the four trainings
Escape ==
  /\ session.kind # NoSession
  /\ liveTimers < MaxLiveTimers
  /\ session' = Cleanup(session.sid)
  /\ widgetStatus' = "canceled"
  /\ liveTimers' = liveTimers + 1
  /\ hTrain' = [hTrain EXCEPT !.cancelled = @ \cup {session.sid}]
  /\ UNCHANGED <<storage, sleeping, storageQ, poll, priceVars, symVars, hookVars>>

\* bindSymbolInput.onClick up to its sleep(50), for a click on an element of
\* the page outside the widget; the click moves the focus
ClickBind(target) ==
  /\ session.kind = "symbolInput"
  /\ ElKind(dom, target) # "absent"
  /\ Cardinality(sleeping) < MaxSleeping
  /\ dom' = [dom EXCEPT !.active = IF ElKind(dom, target) \in {"input", "editable"}
                                     THEN target ELSE ElBody]
  /\ LET clickSel == buildSelectorFor(dom, target)
     IN  sleeping' = IF clickSel = Empty THEN sleeping
                     ELSE sleeping \cup {[sid |-> session.sid, el |-> target,
                                          clickSel |-> clickSel]}
  /\ UNCHANGED <<storage, session, storageQ, poll, liveTimers, widgetStatus, hTrain,
                 currentCfg, lastActivatedSymbol, call, clipboard, trade, statusText,
                 hOk, priceVars, hookVars>>

\* bindSymbolInput.onClick from the end of its sleep to its storage call
SleepDone ==
  /\ Len(storageQ) < MaxQueue
  /\ \E h \in sleeping :
       /\ LET active == deepActiveElement(dom)
              typeEl == IF isTypeable(dom, active) THEN active
                        ELSE IF isTypeable(dom, h.el) THEN h.el ELSE NoEl
              typeSel == buildSelectorFor(dom, typeEl)
          IN  storageQ' = Append(storageQ,
                                 SetCall("symbolInput", h.sid, h.clickSel, typeSel))
       /\ sleeping' = sleeping \ {h}
  /\ UNCHANGED <<storage, session, poll, liveTimers, widgetStatus, hTrain, priceVars,
                 symVars, hookVars>>

\* bindCursorPriceElement.onClick up to its storage call
ClickPrice(target) ==
  /\ session.kind = "priceElement"
  /\ ElKind(dom, target) # "absent"
  /\ Len(storageQ) < MaxQueue
  /\ buildSelectorPath(dom, target) # <<>>
  /\ storageQ' = Append(storageQ, SetCall("priceElement", session.sid,
                                          buildSelectorPath(dom, target), <<>>))
  /\ UNCHANGED <<storage, session, sleeping, poll, liveTimers, widgetStatus, hTrain,
                 priceVars, symVars, hookVars>>

\* onDown of a region training, for a press outside the widget
MouseDown(pt) ==
  /\ session.kind \in RegionKinds
  /\ session' = [session EXCEPT !.start = <<pt>>]
  /\ hTrain' = [hTrain EXCEPT !.drag = <<>>]
  /\ UNCHANGED <<storage, sleeping, storageQ, poll, liveTimers, widgetStatus, priceVars,
                 symVars, hookVars>>

\* onUp of a region training up to its storage call
MouseUp(pt) ==
  /\ session.kind \in RegionKinds
  /\ session.start # <<>>
  /\ Len(storageQ) < MaxQueue
  /\ session' = [session EXCEPT !.start = <<>>]
  /\ LET region == DragRegion(session.start[1], pt)
     IN  IF TooSmall(region.w.num, region.h.num)
           THEN /\ storageQ' = storageQ
                /\ hTrain' = [hTrain EXCEPT !.short = @ \cup {session.sid},
                                            !.drag = <<[from |-> session.start[1], to |-> pt]>>]
           ELSE /\ storageQ' = Append(storageQ, SetCall(session.kind, session.sid,
                                                        region, <<>>))
                /\ hTrain' = [hTrain EXCEPT
                                 !.drag = <<[from |-> session.start[1], to |-> pt]>>]
  /\ UNCHANGED <<storage, sleeping, poll, liveTimers, widgetStatus, priceVars, symVars, hookVars>>

\* the storage after chrome.storage.local.set of a training
StorageAfter(c) ==
  IF c.kind = "symbolInput"
    THEN [storage EXCEPT !.symbolClickSelector = <<c.a>>, !.symbolTypeSelector = <<c.b>>]
  ELSE IF c.kind = "activeSymbol"
    THEN [storage EXCEPT !.activeSymbolRegion = <<<<c.a>>>>, !.activeSymbolPath = <<<<>>>>]
  ELSE IF c.kind = "priceAxis"
    THEN [storage EXCEPT !.cursorPriceAxisRegion = <<<<c.a>>>>]
  ELSE [storage EXCEPT !.cursorPricePath = <<c.a>>]

\* currentCfg after the assignments that follow the storage call
CfgAfter(c) ==
  IF c.kind = "symbolInput"
    THEN [currentCfg EXCEPT !.symbolClickSelector = c.a, !.symbolTypeSelector = c.b]
  ELSE IF c.kind = "activeSymbol"
    THEN [currentCfg EXCEPT !.activeSymbolRegion = <<c.a>>, !.activeSymbolPath = <<>>]
  ELSE IF c.kind = "priceAxis"
    THEN [currentCfg EXCEPT !.cursorPriceAxisRegion = <<c.a>>]
  ELSE [currentCfg EXCEPT !.cursorPricePath = <<c.a>>]

\* history: the training c has written its binding
NoteTrained(h, c) ==
  [h EXCEPT !.late = IF c.sid \in h.cancelled THEN @ \cup {c.sid} ELSE @,
            !.done = @ \cup {c.sid},
            !.lastPoint = IF c.kind = "symbolInput"
                            THEN <<[click |-> c.a, type |-> c.b]>> ELSE @,
            !.lastRegion = IF c.kind = "activeSymbol" THEN <<c.a>> ELSE @,
            !.lastAxis = IF c.kind = "priceAxis" THEN <<c.a>> ELSE @,
            !.lastPath = IF c.kind = "priceElement" THEN <<c.a>> ELSE @]

\* chrome.storage.local answers its oldest call, and the code waiting for the
\* answer runs: a training handler up to its sleep(900), initConfig to its
\* end, pollLoop up to its fetch
StorageServe ==
  /\ storageQ # <<>>
  /\ storageQ' = Tail(storageQ)
  /\ LET c == Head(storageQ)
     IN  IF c.op = "set"
           THEN /\ liveTimers < MaxLiveTimers
                /\ storage' = StorageAfter(c)
                /\ currentCfg' = CfgAfter(c)
                /\ session' = Cleanup(c.sid)
                /\ widgetStatus' = DoneStatus(c.kind)
                /\ liveTimers' = liveTimers + 1
                /\ hTrain' = NoteTrained(hTrain, c)
                /\ poll' = poll
         ELSE IF c.kind = "init"
           THEN /\ currentCfg' = Merged(loadConfig(storage))
                /\ hTrain' = [hTrain EXCEPT !.loads = TRUE]
                /\ UNCHANGED <<storage, session, widgetStatus, liveTimers, poll>>
         ELSE /\ currentCfg' = Reloaded(loadConfig(storage))
              /\ widgetStatus' = "fetching"
              /\ poll' = "fetch"
              /\ hTrain' = [hTrain EXCEPT !.loads = TRUE]
              /\ UNCHANGED <<storage, session, liveTimers>>
  /\ UNCHANGED <<sleeping, lastActivatedSymbol, dom, call, clipboard, trade, statusText,
                 hOk, priceVars, hookVars>>

\* pollLoop from the top of its loop to its loadConfig()
PollStart ==
  /\ poll = "ready"
  /\ IF legendRoute
       THEN /\ Len(storageQ) < MaxQueue
            /\ storageQ' = Append(storageQ, GetCall("poll"))
            /\ poll' = "loading"
            /\ UNCHANGED widgetStatus
       ELSE /\ widgetStatus' = "idle"
            /\ UNCHANGED <<storageQ, poll>>
  /\ UNCHANGED <<storage, session, sleeping, liveTimers, hTrain, priceVars, symVars, hookVars>>

\* pollLoop from the answer of its fetch to its sleep
PollFetched(outcome) ==
  /\ poll = "fetch"
  /\ widgetStatus' = outcome
  /\ poll' = "ready"
  /\ UNCHANGED <<storage, session, sleeping, storageQ, liveTimers, hTrain, priceVars,
                 symVars, hookVars>>

\* the setStatus(ui, "ok", "live") that ends a training or a cancellation
StatusLive ==
  /\ liveTimers > 0
  /\ liveTimers' = liveTimers - 1
  /\ widgetStatus' = "live"
  /\ UNCHANGED <<storage, session, sleeping, storageQ, poll, hTrain, priceVars, symVars, hookVars>>

\* what storage holds when nothing was ever stored
EmptyStorage ==
  [symbolClickSelector |-> <<>>, symbolTypeSelector |-> <<>>, activeSymbolPath |-> <<>>,
   activeSymbolRegion |-> <<>>, cursorPriceAxisRegion |-> <<>>, cursorPricePath |-> <<>>,
   symbolSelector |-> <<>>]

NoTrainings ==
  [cancelled |-> {}, late |-> {}, done |-> {}, short |-> {}, loads |-> FALSE,
   lastPoint |-> <<>>, lastRegion |-> <<>>, lastAxis |-> <<>>, lastPath |-> <<>>,
   drag |-> <<>>]

(***************************************************************************)
(* Colours: parseRgb, isGreen, isRed, isNeutralDark                        *)
(***************************************************************************)
\* a fill style, by its notation: "rgb" is rgb(r, g, b) or rgba(r, g, b, a)
\* with the decimal numbers r, g, b; "hex6" is #rrggbb with the values of its
\* three digit pairs; "hex3" is #rgb with the values of its three digits;
\* "hex8" is #rrggbbaa; "other" is any other text (a colour name, a gradient
\* object); "empty" is the empty string, null or undefined
Style(form, r, g, b) == [form |-> form, r |-> r, g |-> g, b |-> b]

\* the channels of a style, <<>> for null
parseRgb(style) ==
  IF style.form = "rgb" \/ style.form = "hex6"
    THEN <<[r |-> style.r, g |-> style.g, b |-> style.b]>>
  ELSE IF style.form = "hex3"
    THEN <<[r |-> 16 * style.r + style.r, g |-> 16 * style.g + style.g,
            b |-> 16 * style.b + style.b]>>
  ELSE <<>>

isGreen(style) ==
  LET c == parseRgb(style)
  IN  c # <<>> /\ c[1].g > 150 /\ c[1].g > c[1].r + 40 /\ c[1].g > c[1].b + 40

isRed(style) ==
  LET c == parseRgb(style)
  IN  c # <<>> /\ c[1].r > 150 /\ c[1].r > c[1].g + 40 /\ c[1].r > c[1].b + 40

\* a variant of isNeutralDark that does not look at the spread of the
\* channels, for comparison; lum is compared in ten-thousandths
isDark(style) ==
  LET c == parseRgb(style)
  IN  c # <<>> /\ ~(2126 * c[1].r + 7152 * c[1].g + 722 * c[1].b >= 900000)

isNeutralDark(style) ==
  LET c == parseRgb(style)
  IN  /\ c # <<>>
      /\ ~(2126 * c[1].r + 7152 * c[1].g + 722 * c[1].b >= 900000)
      /\ Max(Max(Abs(c[1].r - c[1].g), Abs(c[1].g - c[1].b)), Abs(c[1].r - c[1].b)) < 22

(***************************************************************************)
(* Numbers in drawn texts                                                  *)
(***************************************************************************)
DigitValue(ch) == CHOOSE k \in 0..9 : DigitChar(k) = ch

\* the value of a run of digits
RECURSIVE DigitsValue(_)
DigitsValue(s) ==
  IF s = <<>> THEN 0 ELSE 10 * DigitsValue(SubSeq(s, 1, Len(s) - 1)) + DigitValue(s[Len(s)])

\* the end of the run of digits of s that starts at i
RECURSIVE DigitsEnd(_, _)
DigitsEnd(s, i) == IF i < Len(s) /\ s[i + 1] \in Digits THEN DigitsEnd(s, i + 1) ELSE i

RemoveCommas(s) == SelectSeq(s, LAMBDA ch : ch # ",")

\* Number() of the match of [0-9]+(\.[0-9]+)? that starts at i, in thousandths
\* (the texts drawn have up to three decimals)
NumberAt(s, i) ==
  LET e == DigitsEnd(s, i)
      hasFrac == e + 1 < Len(s) /\ s[e + 1] = "." /\ s[e + 2] \in Digits
      f == IF hasFrac THEN DigitsEnd(s, e + 2) ELSE e
      frac == IF hasFrac THEN SubSeq(s, e + 2, f) ELSE <<>>
      scale == <<1000, 100, 10, 1>>[Len(frac) + 1]
  IN  [end |-> f, n |-> 1000 * DigitsValue(SubSeq(s, i, e)) + scale * DigitsValue(frac)]

\* injected_cursor.js: the first number anywhere in the text
extractNumberToken(raw) ==
  LET s == RemoveCommas(Trim(raw))
      starts == {i \in 1..Len(s) : s[i] \in Digits}
  IN  IF starts = {} THEN null
      ELSE LET i == CHOOSE k \in starts : \A j \in starts : k <= j
               n == NumberAt(s, i).n
           IN  IF n <= 0 THEN null ELSE n

\* inline script: the whole text is a number
strictNumber(raw) ==
  LET s == Trim(raw)
  IN  IF s = <<>> \/ s[1] \notin Digits THEN null
      ELSE LET m == NumberAt(s, 1)
           IN  IF m.end # Len(s) \/ m.n <= 0 THEN null ELSE m.n

(***************************************************************************)
(* hookCanvas2D and installOnce                                            *)
(***************************************************************************)
\* the values of data-element that installOnce looks for
Roles == {"yAxisLabelsCanvas", "crossToolCanvas", "hitTestCanvas"}

\* canvas.width; the CSS box of a canvas is RectHeight px high, and
\* canvas.height is RectHeight times the canvas's scale
CanvasWidth == 400
RectHeight == 200

\* all.slice(0, 18)
FALLBACK_CANVASES == 18

\* a canvas element: its data-element ("" for none), whether getContext("2d")
\* gives a context, canvas.__rhHookedV5, canvas.__rhMouseV5, the number of
\* wrappers around its context's fillRect/fillText, the wrapper's lastRect
\* (<<>> for null), ctx.fillStyle, and its box
Canvas(role, has2d, top, scale) ==
  [role |-> role, has2d |-> has2d, flag |-> FALSE, tracker |-> FALSE, layers |-> 0,
   lastRect |-> <<>>, fillStyle |-> Style("hex6", 0, 0, 0), top |-> top, scale |-> scale]

\* a variant of the re-wrap guard that never finds a canvas hooked, for
\* comparison
NeverAlreadyHooked(cv) == FALSE

\* canvas.__rhHookedV5
AlreadyHooked(cv) == cv.flag

\* hookCanvas2D(canvas): the canvas afterwards
hookCanvas2D(cv) ==
  IF AlreadyHooked(cv) \/ ~cv.has2d THEN cv
  ELSE [cv EXCEPT !.flag = TRUE, !.layers = @ + 1, !.lastRect = <<>>]

\* hookCanvas2D(canvas) reaches state.hooked = true
Hooks(cv) == ~AlreadyHooked(cv) /\ cv.has2d

\* the first canvas that attachMouseTracker is handed: cross[0] || hit[0] ||
\* yAxes[0], 0 for null
TrackerTarget(cs) ==
  LET first(role) == {i \in 1..Len(cs) : cs[i].role = role
                                         /\ \A j \in 1..(i - 1) : cs[j].role # role}
      pick == IF first("crossToolCanvas") # {} THEN first("crossToolCanvas")
              ELSE IF first("hitTestCanvas") # {} THEN first("hitTestCanvas")
              ELSE first("yAxisLabelsCanvas")
  IN  IF pick = {} THEN 0 ELSE CHOOSE i \in pick : TRUE

\* installOnce() of the script that owns the page: the canvases and
\* state.hooked afterwards
installOnce(cs, wasHooked, who) ==
  LET tracked == IF who = "inline" THEN TrackerTarget(cs) ELSE 0
      cs1 == [i \in 1..Len(cs) |->
                LET cv == IF i = tracked THEN [cs[i] EXCEPT !.tracker = TRUE] ELSE cs[i]
                IN  IF cv.role \in Roles THEN hookCanvas2D(cv) ELSE cv]
      hooked1 == wasHooked \/ \E i \in 1..Len(cs) : cs[i].role \in Roles /\ Hooks(cs[i])
      fallback == who = "injected" /\ ~hooked1
      cs2 == [i \in 1..Len(cs) |->
                IF fallback /\ i <= FALLBACK_CANVASES THEN hookCanvas2D(cs1[i]) ELSE cs1[i]]
      hooked2 == hooked1 \/ (fallback /\ \E i \in 1..Len(cs) :
                                            i <= FALLBACK_CANVASES /\ Hooks(cs1[i]))
  IN  [canvases |-> cs2, hooked |-> hooked2]

\* the wrapper's test for a badge-sized rectangle
BadgeSized(w, h) == w > 28 /\ w < 260 /\ h > 14 /\ h < 80

\* the wrapped ctx.fillRect(x, y, w, h) at time t: the canvas afterwards and the
\* calls of the original fillRect
wrappedFillRect(cv, w, h, t) ==
  [cv |-> IF BadgeSized(w, h) THEN [cv EXCEPT !.lastRect = <<[t |-> t, fill |-> cv.fillStyle]>>]
          ELSE cv,
   origCalls |-> 1, origArgs |-> [text |-> <<>>, x |-> 0, y |-> 0, w |-> w, h |-> h],
   result |-> "original"]

\* x > canvas.width * 0.72
NearRight(x) == 100 * x > 72 * CanvasWidth

\* the wrapper's recent && isNeutralDark && !isGreen && !isRed, with the
\* script's window for recent
BgOk(cv, t, window) ==
  /\ cv.lastRect # <<>>
  /\ t - cv.lastRect[1].t < window
  /\ isNeutralDark(cv.lastRect[1].fill)
  /\ ~isGreen(cv.lastRect[1].fill)
  /\ ~isRed(cv.lastRect[1].fill)

NoCapture(st) == [st |-> st, out |-> <<>>, calls |-> 0, val |-> null]

\* the body of the try block of injected_cursor.js's ctx.fillText at time t,
\* val being extractNumberToken(text) and cy state.lastMouseClientY; throws
\* says that reading the text throws
captureInjected(cv, val, x, y, throws, st, t, cy) ==
  IF throws THEN NoCapture(st)
  ELSE LET dy == IF cy = null THEN 9999 ELSE Abs(y - (cy - cv.top) * cv.scale)
           hit1 == dy < 10
           hit2 == BgOk(cv, t, 12) /\ dy < 35
           r1 == IF hit1 THEN post(st, val, t) ELSE [st |-> st, out |-> <<>>]
           r2 == IF hit2 THEN post(r1.st, val, t) ELSE [st |-> r1.st, out |-> <<>>]
       IN  IF val = null \/ ~NearRight(x) THEN NoCapture(st)
           ELSE [st |-> r2.st, out |-> r1.out \o r2.out,
                 calls |-> (IF hit1 THEN 1 ELSE 0) + (IF hit2 THEN 1 ELSE 0), val |-> val]

\* the body of the try block of the inline script's ctx.fillText, val being
\* the number the text is (null for none) and my state.mouseY_canvas
captureInline(cv, val, x, y, throws, st, t, my) ==
  IF throws THEN NoCapture(st)
  ELSE LET dy == IF my = null THEN 9999 ELSE Abs(y - my)
           hit == NearRight(x) /\ BgOk(cv, t, 10) /\ dy < 35
           r == IF hit THEN send(st, val, t) ELSE [st |-> st, out |-> <<>>]
       IN  IF val = null THEN NoCapture(st)
           ELSE [st |-> r.st, out |-> r.out, calls |-> IF hit THEN 1 ELSE 0, val |-> val]

\* a variant of the wrapped fillText that does not draw a label whose price
\* it has emitted, for comparison
wrappedFillTextKeepsCaptured(cap, text, x, y) ==
  [cap |-> cap, origCalls |-> IF cap.out # <<>> THEN 0 ELSE 1,
   origArgs |-> [text |-> text, x |-> x, y |-> y, w |-> 0, h |-> 0],
   result |-> IF cap.out # <<>> THEN "none" ELSE "original"]

\* the wrapped ctx.fillText(text, x, y, maxWidth) around its try block: what
\* was captured and the calls of the original fillText
wrappedFillText(cap, text, x, y) ==
  [cap |-> cap, origCalls |-> 1,
   origArgs |-> [text |-> text, x |-> x, y |-> y, w |-> 0, h |-> 0],
   result |-> "original"]

NoDraw ==
  [seq |-> 0, op |-> "none", c |-> 0,
   args |-> [text |-> <<>>, x |-> 0, y |-> 0, w |-> 0, h |-> 0],
   layers |-> 0, captures |-> 0, origCalls |-> 0,
   origArgs |-> [text |-> <<>>, x |-> 0, y |-> 0, w |-> 0, h |-> 0],
   result |-> "none", out |-> <<>>, calls |-> 0]

\* isGreen, isRed and isNeutralDark are called with the style at hand
Classify ==
  /\ ~hClass.done
  /\ hClass' = [style |-> hClass.style, done |-> TRUE, green |-> isGreen(hClass.style),
                red |-> isRed(hClass.style), dark |-> isNeutralDark(hClass.style)]
  /\ UNCHANGED <<canvases, hooked, lastMouseClientY, mouseY_canvas, hDraw, hPass, hFit, hKey, runs, hSteps, hSel,
                 priceVars, symVars, trainVars>>

\* a style that is about to be classified
Unclassified(style) ==
  [style |-> style, done |-> FALSE, green |-> FALSE, red |-> FALSE, dark |-> FALSE]

NoClass == Unclassified(Style("empty", 0, 0, 0))

(***************************************************************************)
(* Axis calibration: extractPrice and detectCursorPriceFromScale           *)
(***************************************************************************)
\* extractPrice(raw): the first number of the text, with its sign, in
\* thousandths; null when there is none or it is not positive
extractPrice(raw) ==
  LET s == RemoveCommas(Trim(raw))
      starts == {i \in 1..Len(s) :
                   s[i] \in Digits \/ (s[i] = "-" /\ i < Len(s) /\ s[i + 1] \in Digits)}
  IN  IF starts = {} THEN null
      ELSE LET i == CHOOSE k \in starts : \A j \in starts : k <= j
           IN  IF s[i] = "-" THEN null
               ELSE IF NumberAt(s, i).n <= 0 THEN null ELSE NumberAt(s, i).n

\* an element under a sampled point: its text, twice the y of its centre
\* (centres lie on whole or half pixels), whether its box has a width and a
\* height, its computed colour (<<>> when unreadable) and whether its
\* background is visible
AxisEl(text, y2, visible, fg, hasBg) ==
  [text |-> text, y2 |-> y2, visible |-> visible, fg |-> fg, hasBg |-> hasBg]

\* the colour tests of the axis labels: luma in [0.22, 0.9], darkest channel
\* at most 0.92, channel spread at most 0.14, red bias at most 0.18, no
\* visible background; the fractions of 255 are compared crosswise
KeptAsAxisLabel(el) ==
  /\ ~el.hasBg
  /\ el.fg # <<>>
  /\ LET c == el.fg[1]
         luma == 2126 * c.r + 7152 * c.g + 722 * c.b
         hi == Max(Max(c.r, c.g), c.b)
         lo == Min(Min(c.r, c.g), c.b)
     IN  /\ ~(luma > 2295000)
         /\ ~(luma < 561000)
         /\ ~(100 * lo > 92 * 255)
         /\ ~(100 * (hi - lo) > 14 * 255)
         /\ ~(100 * Abs(2 * c.r - c.g - c.b) > 18 * 510)

\* Math.round of a y given in half pixels
RoundHalf(y2) == (y2 + 1) \div 2

\* the points the candidates leave, in the order of the candidates: from
\* candidate i on, seen being the keys taken so far
RECURSIVE AxisPoints(_, _, _, _)
AxisPoints(cands, i, seen, regionRect) ==
  IF i > Len(cands) THEN <<>>
  ELSE LET el == cands[i]
           price == extractPrice(el.text)
           key == <<price, RoundHalf(el.y2)>>
           keep == /\ price # null
                   /\ el.visible
                   /\ ~(el.y2 < 2 * (regionRect.top - 2))
                   /\ ~(el.y2 > 2 * (regionRect.bottom + 2))
                   /\ KeptAsAxisLabel(el)
                   /\ key \notin seen
       IN  IF keep
             THEN <<[y2 |-> el.y2, p |-> price]>>
                    \o AxisPoints(cands, i + 1, seen \cup {key}, regionRect)
             ELSE AxisPoints(cands, i + 1, seen, regionRect)

RECURSIVE SeqSum(_)
SeqSum(s) == IF s = <<>> THEN 0 ELSE s[1] + SeqSum(Tail(s))

\* a variant of the test of the number of points that lets every number pass,
\* for comparison
TooFewPointsNever(points) == FALSE

\* points.length < 3
TooFewPoints(points) == Len(points) < 3

\* the sums of the least-squares fit, over y in half pixels and p in
\* thousandths: denom4 is 4 * denom, and the slope a is 2 * slopeNum / denom4
\* thousandths per pixel
FitSums(points) ==
  LET n == Len(points)
      sumY == SeqSum([i \in 1..n |-> points[i].y2])
      sumP == SeqSum([i \in 1..n |-> points[i].p])
      sumYY == SeqSum([i \in 1..n |-> points[i].y2 * points[i].y2])
      sumYP == SeqSum([i \in 1..n |-> points[i].y2 * points[i].p])
  IN  [n |-> n, sumY |-> sumY, sumP |-> sumP, denom4 |-> n * sumYY - sumY * sumY,
       slopeNum |-> n * sumYP - sumY * sumP]

\* a variant of the slope's numerator without the factor n, for comparison
SlopeNumUnweighted(points) ==
  LET n == Len(points)
  IN  SeqSum([i \in 1..n |-> points[i].y2 * points[i].p])
        - FitSums(points).sumY * FitSums(points).sumP

\* n * sumYP - sumY * sumP
SlopeNum(points) == FitSums(points).slopeNum

\* a * yBase + b as a fraction of thousandths, yBase in half pixels:
\* a = 2 * N / D and b = (sumP - a * sumY / 2) / n
FitAt(points, yBase2) ==
  LET f == FitSums(points)
      N == SlopeNum(points)
  IN  [num |-> f.n * N * yBase2 + f.sumP * f.denom4 - N * f.sumY, den |-> f.n * f.denom4]

\* Math.abs(denom) < 1e-6: denom is a quarter of the integer denom4, so it is
\* that small exactly when denom4 is 0
DenomDegenerate(points) == Abs(FitSums(points).denom4) < 1

\* out > 0, for out a fraction
PositiveFraction(f) == (f.num > 0 /\ f.den > 0) \/ (f.num < 0 /\ f.den < 0)

\* detectCursorPriceFromScale(regionRect, yBase) over the candidates its
\* sampling has collected: the points and the value returned, <<>> for null
detectCursorPriceFromScale(regionRect, yBase2, cands) ==
  LET w == regionRect.right - regionRect.left
      h == regionRect.bottom - regionRect.top
      points == AxisPoints(cands, 1, {}, regionRect)
  IN  IF w < 6 \/ h < 24 THEN [points |-> <<>>, out |-> <<>>]
      ELSE IF TooFewPoints(points) THEN [points |-> points, out |-> <<>>]
      ELSE IF DenomDegenerate(points) THEN [points |-> points, out |-> <<>>]
      ELSE IF ~PositiveFraction(FitAt(points, yBase2)) THEN [points |-> points, out |-> <<>>]
      ELSE [points |-> points, out |-> <<FitAt(points, yBase2)>>]

\* a call of detectCursorPriceFromScale that is about to be made
FitCall(regionRect, yBase2, cands) ==
  [regionRect |-> regionRect, yBase2 |-> yBase2, cands |-> cands, done |-> FALSE,
   points |-> <<>>, out |-> <<>>]

NoFit == FitCall([left |-> 0, top |-> 0, right |-> 0, bottom |-> 0], 0, <<>>)

\* detectCursorPriceFromScale is called with the region, row and candidates
\* at hand
DetectFromScale ==
  /\ ~hFit.done
  /\ \E r \in {detectCursorPriceFromScale(hFit.regionRect, hFit.yBase2, hFit.cands)} :
       hFit' = [hFit EXCEPT !.done = TRUE, !.points = r.points, !.out = r.out]
  /\ UNCHANGED <<canvases, hooked, lastMouseClientY, mouseY_canvas, hDraw, hPass, hClass, hKey, runs, hSteps, hSel,
                 priceVars, symVars, trainVars>>

\* the page sets ctx.fillStyle of canvas c
SetFillStyle(c, style) ==
  /\ c \in 1..Len(canvases)
  /\ canvases[c].has2d
  /\ canvases[c].fillStyle # style
  /\ canvases' = [canvases EXCEPT ![c].fillStyle = style]
  /\ UNCHANGED <<hSel, hClass, hFit, hKey, runs, hSteps, hooked, lastMouseClientY, mouseY_canvas, hDraw, hPass, priceVars, symVars,
                 trainVars>>

\* the page calls ctx.fillRect(x, y, w, h) on canvas c
CtxFillRect(c, w, h) ==
  /\ c \in 1..Len(canvases)
  /\ canvases[c].has2d
  /\ LET cv == canvases[c]
         r == IF cv.layers > 0 THEN wrappedFillRect(cv, w, h, now)
              ELSE [wrappedFillRect(cv, w, h, now) EXCEPT !.cv = cv]
     IN  /\ canvases' = [canvases EXCEPT ![c] = r.cv]
         /\ hDraw' = [seq |-> 1 - hDraw.seq, op |-> "fillRect", c |-> c,
                      args |-> [text |-> <<>>, x |-> 0, y |-> 0, w |-> w, h |-> h],
                      layers |-> cv.layers, captures |-> cv.layers,
                      origCalls |-> r.origCalls, origArgs |-> r.origArgs,
                      result |-> r.result, out |-> <<>>, calls |-> 0]
  /\ UNCHANGED <<hSel, hClass, hFit, hKey, runs, hSteps, hooked, lastMouseClientY, mouseY_canvas, hPass, priceVars, symVars,
                 trainVars>>

\* the page calls ctx.fillText(text, x, y) on canvas c
CtxFillText(c, text, x, y, throws) ==
  /\ c \in 1..Len(canvases)
  /\ canvases[c].has2d
  /\ Len(inflight) < MaxInflight
  /\ \E cv \in {canvases[c]} :
     \E val \in {IF reader = "injected" THEN extractNumberToken(text)
                 ELSE strictNumber(text)} :
     \E cap \in {IF cv.layers = 0 THEN NoCapture(state)
                 ELSE IF reader = "injected"
                   THEN captureInjected(cv, val, x, y, throws, state, now, lastMouseClientY)
                 ELSE captureInline(cv, val, x, y, throws, state, now, mouseY_canvas)} :
     \E r \in {wrappedFillText(cap, text, x, y)} :
         /\ state' = r.cap.st
         /\ inflight' = Posted(r.cap.out)
         /\ hCall' = IF r.cap.calls > 0 THEN NoteCall(hCall, r.cap.val, now) ELSE hCall
         /\ hEmit' = NoteEmit(hEmit, r.cap.out, now)
         /\ hDraw' = [seq |-> 1 - hDraw.seq, op |-> "fillText", c |-> c,
                      args |-> [text |-> text, x |-> x, y |-> y, w |-> 0, h |-> 0],
                      layers |-> cv.layers, captures |-> cv.layers,
                      origCalls |-> r.origCalls, origArgs |-> r.origArgs,
                      result |-> r.result, out |-> r.cap.out, calls |-> r.cap.calls]
  /\ UNCHANGED <<hSel, hClass, hFit, hKey, runs, hSteps, now, reader, tickWake, domPrice, lastFrameCursorPrice, lastFrameCursorTs,
                 legendRoute, cpl, cursorPriceText, hRecv, canvases, hooked,
                 lastMouseClientY, mouseY_canvas, hPass, symVars, trainVars>>

\* the pointer moves over canvas c, at clientY cy
MouseMove(c, cy) ==
  /\ c \in 1..Len(canvases)
  /\ IF reader = "injected"
       THEN lastMouseClientY' = cy /\ UNCHANGED mouseY_canvas
       ELSE /\ canvases[c].tracker
            /\ mouseY_canvas' = (cy - canvases[c].top) * canvases[c].scale
            /\ UNCHANGED lastMouseClientY
  /\ lastMouseClientY' # lastMouseClientY \/ mouseY_canvas' # mouseY_canvas
  /\ UNCHANGED <<hSel, hClass, hFit, hKey, runs, hSteps, canvases, hooked, hDraw, hPass, priceVars, symVars, trainVars>>

\* at most this many canvases are added to a page, and at most this many
\* install passes run
MaxAdded == 2
MaxPasses == 3

\* the page appends a canvas to the document
AddCanvas(role, has2d, top, scale) ==
  /\ hPass.added < MaxAdded
  /\ canvases' = Append(canvases, Canvas(role, has2d, top, scale))
  /\ hPass' = [hPass EXCEPT !.added = @ + 1]
  /\ UNCHANGED <<hSel, hClass, hFit, hKey, runs, hSteps, hooked, lastMouseClientY, mouseY_canvas, hDraw, priceVars, symVars,
                 trainVars>>

\* one pass of installOnce: at start, from the mutation observer or from the
\* interval timer
InstallOnce ==
  /\ hPass.n < MaxPasses
  /\ LET r == installOnce(canvases, hooked, reader)
     IN  canvases' = r.canvases /\ hooked' = r.hooked
  /\ hPass' = [hPass EXCEPT !.n = @ + 1, !.lastLen = Len(canvases),
                             !.again = @ \/ \E i \in 1..Len(canvases) :
                                               canvases[i].role \in Roles /\ canvases[i].flag]
  /\ UNCHANGED <<hSel, hClass, hFit, hKey, runs, hSteps, lastMouseClientY, mouseY_canvas, hDraw, priceVars, symVars, trainVars>>

\* the y-axis canvas of a Legend chart
AxisCanvas == Canvas("yAxisLabelsCanvas", TRUE, 100, 1)

\* the script has run its first installOnce on a page with one y-axis canvas;
\* the pointer has not moved yet
InitHookIdle ==
  /\ canvases = installOnce(<<AxisCanvas>>, FALSE, "injected").canvases
  /\ hooked = TRUE
  /\ lastMouseClientY = null
  /\ mouseY_canvas = null
  /\ hDraw = NoDraw
  /\ hClass = NoClass
  /\ hFit = NoFit
  /\ hKey = NoKey
  /\ runs = <<>>
  /\ hSteps = <<>>
  /\ hSel = NoDescriptor
  /\ hPass = [n |-> 1, added |-> 0, lastLen |-> 1, again |-> FALSE]

\* no training runs and the configuration in memory is the stored one
InitTrainIdle ==
  /\ storage = [EmptyStorage EXCEPT
                  !.symbolClickSelector = <<currentCfg.symbolClickSelector>>,
                  !.symbolTypeSelector = <<currentCfg.symbolTypeSelector>>,
                  !.activeSymbolPath = <<currentCfg.activeSymbolPath>>,
                  !.activeSymbolRegion = <<currentCfg.activeSymbolRegion>>]
  /\ session = [kind |-> NoSession, sid |-> 0, start |-> <<>>]
  /\ sleeping = {}
  /\ storageQ = <<>>
  /\ poll = "ready"
  /\ liveTimers = 0
  /\ widgetStatus = "live"
  /\ hTrain = NoTrainings

\* the pages and configurations with the given choices: the kinds of the
\* bound type element, whether a click element is bound, whether Legend's
\* search input exists, whether a region, a path, hint elements are there,
\* the body texts, the symbol parameters of the URL, the texts of the type
\* element and the symbols activated earlier
InitSymWorld(typeKinds, clicks, searches, regions, paths, hintses, bodies, urls, typeTexts, lasts) ==
  /\ \E typeKind \in typeKinds, click \in clicks, search \in searches,
        region \in regions, path \in paths, hints \in hintses, body \in bodies,
        url \in urls, typeText \in typeTexts :
       /\ currentCfg = [symbolClickSelector |-> IF click THEN ClickSelector ELSE Empty,
                        symbolTypeSelector |-> IF typeKind = "absent" THEN Empty
                                               ELSE TypeSelector,
                        activeSymbolPath |-> IF path THEN <<PathSelector>> ELSE <<>>,
                        activeSymbolRegion |-> IF region THEN <<TrainedRegion>> ELSE <<>>,
                        cursorPriceAxisRegion |-> <<>>, cursorPricePath |-> <<>>]
       /\ dom = [typeKind |-> typeKind,
                 typeText |-> IF typeKind = "absent" THEN Empty ELSE typeText,
                 searchExists |-> search, searchText |-> Empty,
                 clickVisible |-> click, bodyText |-> body, active |-> ElBody,
                 url |-> url,
                 regionEls |-> IF region THEN RegionEls ELSE <<>>,
                 pathText |-> IF path THEN CHOOSE x \in PathTexts : TRUE ELSE Empty,
                 hints |-> IF hints THEN Hints ELSE <<>>]
  /\ lastActivatedSymbol \in lasts
  /\ call = IdleCall
  /\ clipboard = Empty
  /\ trade = IdleTrade
  /\ statusText = "live"
  /\ hOk = {s \in {lastActivatedSymbol} : s # Empty}

\* one page: nothing trained or bound, the URL names a symbol
InitOnePage ==
  /\ InitSymWorld({"absent"}, {FALSE}, {FALSE}, {FALSE}, {FALSE}, {FALSE}, {Empty},
                  {<<"5","M","S","F","T">>}, {Empty}, {Empty})
  /\ InitTrainIdle
  /\ InitHookIdle

(***************************************************************************)
(* Time                                                                    *)
(***************************************************************************)
\* a timer that is due runs before the clock moves on, and a posted message is
\* delivered before the clock moves on
TickTimerDue == reader = "injected" /\ tickWake <= now
LoopTimerDue == cpl.wake <= now

Tick(quantum, maxTime, due) ==
  /\ ~due
  /\ inflight = <<>>
  /\ now + quantum <= maxTime
  /\ now' = now + quantum
  /\ UNCHANGED <<reader, state, inflight, tickWake, domPrice, lastFrameCursorPrice,
                 lastFrameCursorTs, legendRoute, cpl, cursorPriceText, hCall, hRecv, hEmit,
                 symVars, trainVars, hookVars>>

InitPrice ==
  /\ now = 0
  /\ reader \in {"inline", "injected"}
  /\ state = [cursorPrice |-> null, lastSent |-> 0, lastSentPrice |-> null]
  /\ inflight = <<>>
  /\ tickWake = 0
  /\ domPrice \in Prices \cup {null}
  /\ lastFrameCursorPrice = null
  /\ lastFrameCursorTs = 0
  /\ legendRoute \in BOOLEAN
  /\ cpl = [lastGood |-> null, lastGoodTs |-> 0, wake |-> 0, iter |-> 0]
  /\ cursorPriceText = Dash
  /\ hCall = [price |-> null, at |-> 0, since |-> 0]
  /\ hRecv = [price |-> null, at |-> 0]
  /\ hEmit = [n |-> 0, at |-> 0, price |-> null, gap |-> 0, prevPrice |-> null]

\* the labels the page may draw
DrawnValues == Prices \cup {null}
DrawnDy == {5, 20, 9999}

(***************************************************************************)
(* The bridge: page context and message listener                           *)
(***************************************************************************)
TickBridge == Tick(QuantumBridge, MaxTimeBridge, TickTimerDue)

NextBridge ==
  \/ TickBridge
  \/ DomTick
  \/ \E val \in DrawnValues, nearRight \in BOOLEAN, dy \in DrawnDy,
        bgOk \in BOOLEAN : FillText(val, nearRight, dy, bgOk)
  \/ \E p \in Prices \cup {null} : DomChange(p)
  \/ \E m \in ForeignMessages : ForeignPost(m)
  \/ OnMessage

InitBridge == InitPrice /\ InitOnePage

SpecBridge == InitBridge /\ [][NextBridge]_vars

(***************************************************************************)
(* post on its own: any caller, any argument                               *)
(***************************************************************************)
\* what a caller may hand to post: prices, and values that are no price
PostInputs == Prices \cup {0, 0 - 5000, NaN, null}

\* one call post(price) of the injected script
PostCall(price) ==
  /\ reader = "injected"
  /\ Len(inflight) < MaxInflight
  /\ LET r == post(state, price, now)
     IN  /\ state' = r.st
         /\ inflight' = Posted(r.out)
         /\ hEmit' = NoteEmit(hEmit, r.out, now)
  /\ hCall' = [price |-> price, at |-> now, since |-> now]
  /\ UNCHANGED <<now, reader, tickWake, domPrice, lastFrameCursorPrice,
                 lastFrameCursorTs, legendRoute, cpl, cursorPriceText, hRecv,
                 symVars, trainVars, hookVars>>

TickPost == Tick(QuantumPost, MaxTimePost, FALSE)

NextPost ==
  \/ TickPost
  \/ \E price \in PostInputs : PostCall(price)
  \/ OnMessage

InitPost ==
  InitPrice /\ reader = "injected" /\ domPrice = null /\ ~legendRoute /\ InitOnePage

SpecPost == InitPost /\ [][NextPost]_vars

(***************************************************************************)
(* The display: canvas labels, message listener and cursorPriceLoop        *)
(***************************************************************************)
TickDisplay == Tick(QuantumDisplay, MaxTimeDisplay, LoopTimerDue)

NextDisplay ==
  \/ TickDisplay
  \/ \E val \in DrawnValues, nearRight \in BOOLEAN, dy \in DrawnDy,
        bgOk \in BOOLEAN : FillText(val, nearRight, dy, bgOk)
  \/ OnMessage
  \/ CursorPriceLoopStep
  \/ RouteChange

\* the display is driven by the injected script's messages
InitDisplay == InitPrice /\ reader = "injected" /\ domPrice = null /\ InitOnePage

SpecDisplay == InitDisplay /\ [][NextDisplay]_vars

(***************************************************************************)
(* The quote: canvas labels, message listener and the buy hotkey           *)
(***************************************************************************)
TickQuote == Tick(QuantumDisplay, MaxTimeQuote, FALSE)

NextQuote ==
  \/ TickQuote
  \/ \E val \in DrawnValues, nearRight \in BOOLEAN, dy \in DrawnDy,
        bgOk \in BOOLEAN : FillText(val, nearRight, dy, bgOk)
  \/ OnMessage
  \/ ExecuteTrade
  \/ \E outcome \in {"sent", "failed"} : TradeResponse(outcome)
  \/ TradeDone

InitQuote == InitDisplay /\ legendRoute

SpecQuote == InitQuote /\ [][NextQuote]_vars

(***************************************************************************)
(* Symbol activation, detection and trading                                *)
(***************************************************************************)
Elements == {ElType, ElSearch, ElBody}

NextSym ==
  \/ \E raw \in ActivateInputs, focusTo \in Elements : ActivateStart(raw, focusTo)
  \/ ActivateWrite
  \/ \E hit \in BOOLEAN : ActivateSearch1(hit)
  \/ \E hit \in BOOLEAN : ActivateSearch2(hit)
  \/ \E fulfilled \in BOOLEAN : ActivateClipboard(fulfilled)
  \/ ActivateReturn
  \/ ActivateDone
  \/ \E el \in Elements : PageFocus(el)
  \/ \E url \in UrlTexts : PageNavigate(url)

\* activation starts on a page with nothing trained for detection
InitSym ==
  /\ InitPrice /\ legendRoute /\ reader = "injected" /\ domPrice = null
  /\ InitSymWorld(Kinds, BOOLEAN, BOOLEAN, {FALSE}, {FALSE}, {FALSE}, BodyTexts,
                  {Empty}, {Empty}, {Empty})
  /\ InitTrainIdle
  /\ InitHookIdle

SpecSym == InitSym /\ [][NextSym]_vars

(***************************************************************************)
(* The symbols: activation of any text on pages with every detection       *)
(* source                                                                  *)
(***************************************************************************)
\* what the ticker list and the bridge may hand to activateSymbol
TickerInputs ==
  { <<"b","r","k",".","b">>, <<"5","A","A","P","L">>, <<"S","Y","M","B","O","L">>,
    <<"t","o","o","l","o","n","g","w","o","r","d","s","t","r","i","n","g">>,
    <<"1","2","3">>, <<" ","-",".">>, Empty }

NextTicker ==
  \/ \E raw \in TickerInputs, focusTo \in Elements : ActivateStart(raw, focusTo)
  \/ ActivateWrite
  \/ \E hit \in BOOLEAN : ActivateSearch1(hit)
  \/ \E hit \in BOOLEAN : ActivateSearch2(hit)
  \/ \E fulfilled \in BOOLEAN : ActivateClipboard(fulfilled)
  \/ ActivateReturn
  \/ ActivateDone
  \/ \E el \in Elements : PageFocus(el)
  \/ \E url \in UrlTexts : PageNavigate(url)

InitTicker ==
  /\ InitPrice /\ legendRoute /\ reader = "injected" /\ domPrice = null
  /\ InitSymWorld({"absent", "input"}, {FALSE}, {FALSE}, BOOLEAN, BOOLEAN, {TRUE},
                  BodyTexts \ {Empty}, {Empty}, {Empty}, {Empty})
  /\ InitTrainIdle
  /\ InitHookIdle

SpecTicker == InitTicker /\ [][NextTicker]_vars

(***************************************************************************)
(* Extraction: activateSymbol called with single-token texts               *)
(***************************************************************************)
\* a run of n digits: "1234567890123..."
RECURSIVE DigitRun(_)
DigitRun(n) == IF n = 0 THEN <<>> ELSE DigitRun(n - 1) \o <<DigitChar(n % 10)>>

\* the letters the long words are cut from
WordLetters ==
  <<"t","o","o","l","o","n","g","w","o","r","d","s","t","r","i","n","g","X","y","Z">>

\* unbroken alphanumeric words of more than 7 characters behind up to
\* MaxDigits leading digits
LongWords ==
  { DigitRun(d) \o SubSeq(WordLetters, 1, k) : d \in 0..MaxDigits, k \in 8..MaxWordLen }

\* token bodies: a letter first, 1 to 7 characters of letters, digits, '.', '-'
Bodies ==
  { AAPL, <<"b","r","k",".","b">>, <<"S","Y","M","B","O","L">>, <<"T","i","m","e">>,
    <<"a">>, <<"x","1">>, <<"A","-","b",".","C","1","x">> }

\* single tokens: up to MaxDigits leading digits, then a body
TokenInputs == { DigitRun(d) \o b : d \in 0..MaxDigits, b \in Bodies }

\* the first activation of a session, with any of the texts
NextExtract ==
  \/ /\ lastActivatedSymbol = Empty
     /\ \E raw \in LongWords \cup TokenInputs, focusTo \in Elements :
          ActivateStart(raw, focusTo)
  \/ ActivateWrite
  \/ \E hit \in BOOLEAN : ActivateSearch1(hit)
  \/ \E hit \in BOOLEAN : ActivateSearch2(hit)
  \/ \E fulfilled \in BOOLEAN : ActivateClipboard(fulfilled)
  \/ ActivateReturn
  \/ ActivateDone

\* one page whose bound element is a text input or an element that cannot be
\* typed into
InitExtract ==
  /\ InitPrice /\ legendRoute /\ reader = "injected" /\ domPrice = null
  /\ InitSymWorld({"input", "plain"}, {FALSE}, {FALSE}, {FALSE}, {FALSE}, {FALSE}, {Empty},
                  {Empty}, {Empty}, {Empty})
  /\ InitTrainIdle
  /\ InitHookIdle

SpecExtract == InitExtract /\ [][NextExtract]_vars

NextTrade ==
  \/ ExecuteTrade
  \/ \E outcome \in {"sent", "failed"} : TradeResponse(outcome)
  \/ TradeDone
  \/ \E el \in Elements : PageFocus(el)
  \/ \E url \in UrlTexts : PageNavigate(url)

\* trading starts on any page, before or after an activation of TSLA
InitTrade ==
  /\ InitPrice /\ legendRoute /\ reader = "injected" /\ domPrice = null
  /\ InitSymWorld({"absent", "input", "plain"}, {FALSE}, BOOLEAN, BOOLEAN, BOOLEAN,
                  BOOLEAN, BodyTexts, UrlTexts, {Empty, AAPL}, {Empty, TSLA})
  /\ InitTrainIdle
  /\ InitHookIdle

SpecTrade == InitTrade /\ [][NextTrade]_vars

(***************************************************************************)
(* Training of the symbol input and of the active-symbol region            *)
(***************************************************************************)
\* where the pointer is pressed, inside the viewport, and where it is
\* released: inside the viewport, or outside it, where a drag that began
\* inside still reports its positions
DownPoints == { [x |-> 100, y |-> 100], [x |-> 103, y |-> 160] }
UpPoints ==
  { [x |-> 103, y |-> 160], [x |-> 300, y |-> 104], [x |-> 0 - 20, y |-> 140] }

\* the outcomes of pollLoop's fetch
FetchOutcomes == {"live", "bridge offline"}

\* the page of the trainings: a symbol button, Legend's search input, the
\* elements around the symbol label
TrainDom ==
  [typeKind |-> "plain", typeText |-> Empty, searchExists |-> TRUE, searchText |-> Empty,
   clickVisible |-> FALSE, bodyText |-> Empty, active |-> ElBody,
   url |-> <<"5","M","S","F","T">>, regionEls |-> RegionEls, pathText |-> Empty,
   hints |-> <<>>]

\* the content script has just started: initConfig and pollLoop have made
\* their first loadConfig() calls; storage holds what earlier sessions left
InitTraining(regions, axes, legacies, els) ==
  /\ InitPrice /\ legendRoute /\ reader = "injected" /\ domPrice = null
  /\ currentCfg = Merged(loadConfig(EmptyStorage))
  /\ lastActivatedSymbol = Empty
  /\ dom = [TrainDom EXCEPT !.regionEls = els]
  /\ call = IdleCall
  /\ clipboard = Empty
  /\ trade = IdleTrade
  /\ statusText = "live"
  /\ hOk = {}
  /\ \E region \in regions, axis \in axes, legacy \in legacies :
       storage = [EmptyStorage EXCEPT !.activeSymbolRegion = region,
                                      !.cursorPriceAxisRegion = axis,
                                      !.symbolSelector = legacy]
  /\ session = [kind |-> NoSession, sid |-> 0, start |-> <<>>]
  /\ sleeping = {}
  /\ storageQ = <<GetCall("init"), GetCall("poll")>>
  /\ poll = "loading"
  /\ liveTimers = 0
  /\ widgetStatus = "live"
  /\ hTrain = NoTrainings
  /\ InitHookIdle

NextTrain ==
  \/ \E kind \in {"symbolInput", "activeSymbol"} : StartTraining(kind)
  \/ Escape
  \/ \E target \in {ElType, ElSearch, ElBody} : ClickBind(target)
  \/ SleepDone
  \/ \E pt \in DownPoints : MouseDown(pt)
  \/ \E pt \in UpPoints : MouseUp(pt)
  \/ StorageServe
  \/ PollStart
  \/ \E outcome \in FetchOutcomes : PollFetched(outcome)
  \/ StatusLive
  \/ \E el \in {ElSearch, ElBody} : PageFocus(el)

InitTrain ==
  InitTraining({<<>>}, {<<>>}, {<<>>, <<LegacySelector>>}, RegionEls)

SpecTrain == InitTrain /\ [][NextTrain]_vars

(***************************************************************************)
(* Training of the cursor-price axis region and element                    *)
(***************************************************************************)
NextCursorBind ==
  \/ \E kind \in {"priceAxis", "priceElement"} : StartTraining(kind)
  \/ Escape
  \/ \E target \in {ElType, ElSearch, ElBody} : ClickPrice(target)
  \/ \E pt \in DownPoints : MouseDown(pt)
  \/ \E pt \in UpPoints : MouseUp(pt)
  \/ StorageServe
  \/ PollStart
  \/ \E outcome \in FetchOutcomes : PollFetched(outcome)
  \/ StatusLive

InitCursorBind == InitTraining({<<>>}, {<<>>, <<<<TrainedRegion>>>>}, {<<>>}, RegionEls)

SpecCursorBind == InitCursorBind /\ [][NextCursorBind]_vars

(***************************************************************************)
(* Training of a region that covers the symbol label                       *)
(***************************************************************************)
\* the element that shows the symbol and its price, 50 by 16 px at (105, 102)
SymbolLabel ==
  [inWidget |-> FALSE, isBody |-> FALSE, left |-> 105, top |-> 102, w |-> 50, h |-> 16,
   text |-> NVDA_PRICE]

\* the page around it, topmost first: a part of the widget that lies over the
\* label, the label, the body
CoverEls ==
  << [inWidget |-> TRUE, isBody |-> FALSE, left |-> 105, top |-> 102, w |-> 50, h |-> 16,
      text |-> <<"W","I","D","G","E","T">>],
     SymbolLabel,
     [inWidget |-> FALSE, isBody |-> TRUE, left |-> 0, top |-> 0, w |-> 800, h |-> 600,
      text |-> <<"Q","Q","Q">>] >>

\* the corners of the rectangles dragged over the label: each rectangle from
\* a top-left to a bottom-right corner covers it
TopLeftCorners ==
  { [x |-> 105, y |-> 102], [x |-> 105, y |-> 88], [x |-> 58, y |-> 97] }
BottomRightCorners ==
  { [x |-> 155, y |-> 118], [x |-> 160, y |-> 120], [x |-> 155, y |-> 148],
    [x |-> 400, y |-> 300] }

\* the first training of the session
NextCover ==
  \/ session.sid = 0 /\ StartTraining("activeSymbol")
  \/ Escape
  \/ \E pt \in TopLeftCorners : MouseDown(pt)
  \/ \E pt \in BottomRightCorners : MouseUp(pt)
  \/ StorageServe
  \/ PollStart
  \/ \E outcome \in FetchOutcomes : PollFetched(outcome)
  \/ StatusLive

InitCover == InitTraining({<<>>}, {<<>>}, {<<>>}, CoverEls)

SpecCover == InitCover /\ [][NextCover]_vars

(***************************************************************************)
(* Claims                                                                  *)
(***************************************************************************)
\* the page context has called post/send with one price, the calls no more
\* than TICK_MS apart, for a whole staleness window, and is still doing so
SteadyForAWindow ==
  /\ hCall.price # null
  /\ now - hCall.at <= TICK_MS
  /\ now - hCall.since >= CURSOR_STALE_MS
  /\ inflight = <<>>

\* C1: while the page context keeps calling post/send with the same valid
\* price at least once every 80 ms, a cursor_price message with that price is
\* emitted within every 800 ms window, so detectCursorPrice reports that price
\* and never unknown.
C1_HeartbeatKeepsFresh ==
  SteadyForAWindow => detectCursorPrice(now) = hCall.price

\* the injected script has kept one price alive for a whole window
C1_Witness ==
  /\ reader = "injected"
  /\ SteadyForAWindow
  /\ detectCursorPrice(now) = hCall.price

\* a valid sample was received and is younger than CURSOR_STALE_MS at time t
SampleFresh(t) == hRecv.price # null /\ t - hRecv.at < CURSOR_STALE_MS

\* C2: detectCursorPrice returns the cached price exactly when a valid sample
\* was received and its age is strictly below 800 ms, and unknown otherwise;
\* so the stop_ref_price of a buy request is never a sample that was 800 ms
\* old or older when the request was built.
C2_FreshOrUnknown ==
  /\ detectCursorPrice(now) = (IF SampleFresh(now) THEN hRecv.price ELSE null)
  /\ \A k \in 1..Len(trade.req) :
       trade.req[k].stop_ref_price # null =>
         /\ trade.req[k].side = "buy"
         /\ trade.req[k].sentAt - trade.req[k].sampleAt < CURSOR_STALE_MS

\* a buy request went out with a reference price, and by now the sample behind
\* it has gone stale
C2_Witness ==
  /\ trade.req # <<>>
  /\ trade.req[1].stop_ref_price \in Prices
  /\ hRecv.price # null
  /\ now - hRecv.at >= CURSOR_STALE_MS
  /\ detectCursorPrice(now) = null

Returned == call.pc = "returned" /\ call.s # Empty

\* C4: activateSymbol returns true only when the symbol was written into the
\* page, and whenever no write succeeded it copies the symbol to the clipboard
\* and returns false.
C4_TrueOnlyWhenWritten ==
  Returned =>
    /\ call.result => call.wrote
    /\ ~call.wrote => ~call.result /\ clipboard = call.s

\* a call returned false for a symbol it could not write, and the clipboard
\* accepted the symbol
C4_Witness ==
  /\ Returned
  /\ ~call.wrote
  /\ ~call.result
  /\ clipboard = call.s

\* C5: for a valid symbol s and a bound type element that is an enabled,
\* writable text input, one activateSymbol(s) call leaves the input's value
\* equal to s and dispatches exactly one input and one change event on it.
C5_OneWriteOneInputOneChange ==
  (Returned /\ dom.typeKind = "input") =>
    /\ call.target = ElType
    /\ call.wrote
    /\ ElText(dom, ElType) = call.s
    /\ call.nInput = 1
    /\ call.nChange = 1

\* a call wrote a normalised symbol into the bound input and returned, after
\* the focus element was clicked and both suggestion searches found nothing
C5_Witness ==
  /\ Returned
  /\ dom.typeKind = "input"
  /\ call.s = TSLA
  /\ ElText(dom, ElType) = TSLA
  /\ call.nInput = 1 /\ call.nChange = 1
  /\ call.keys = <<"ArrowDown", "Enter">>
  /\ call.result

\* no strategy of detectActiveSymbol yields a symbol on the page as it is
EveryStrategyFails == Chain(Strategies(currentCfg, dom)) = Empty

\* C6: when every strategy fails, detectActiveSymbol returns the last
\* successfully activated symbol: the symbol of an earlier activateSymbol call
\* that reported success, or empty when there was none; read while no
\* activateSymbol call is running.
C6_FallbackWasActivated ==
  (EveryStrategyFails /\ call.pc = "idle") =>
    detectActiveSymbol(currentCfg, dom, lastActivatedSymbol) \in hOk \cup {Empty}

\* every strategy fails and the fallback is a symbol whose activation
\* reported success
C6_Witness ==
  /\ EveryStrategyFails
  /\ call.pc = "idle"
  /\ detectActiveSymbol(currentCfg, dom, lastActivatedSymbol) = TSLA
  /\ TSLA \in hOk

\* C7: if no detection strategy yields a symbol and no symbol was ever
\* activated, executeTrade sends no request to the bridge for either side and
\* reports the status "no active symbol".
C7_NoSymbolNoRequest ==
  [][(/\ trade.pc = "idle" /\ trade'.pc # "idle"
      /\ EveryStrategyFails /\ lastActivatedSymbol = Empty)
       => (/\ trade'.side \in {"buy", "sell"}
           /\ trade'.req = <<>>
           /\ trade'.pc = "warned"
           /\ trade'.status = "no active symbol"
           /\ statusText' = "no active symbol")]_vars

\* the sell hotkey was pressed on a page where no strategy yields a symbol
\* and nothing was activated: warned, nothing sent
C7_Witness ==
  /\ EveryStrategyFails /\ lastActivatedSymbol = Empty
  /\ trade.pc = "warned" /\ trade.side = "sell"
  /\ trade.symbol = Empty /\ trade.req = <<>>
  /\ statusText = "no active symbol"

\* the focused-element strategy as the claim states it: only an input, a
\* textarea or an editable element yields a symbol
FromFocusedTypeable(d) ==
  IF isTypeable(d, deepActiveElement(d)) THEN FromActive(d) ELSE Empty

\* the first non-empty result of a list of strategy results, else the fallback
FirstOf(results, fallback) ==
  IF \A k \in 1..Len(results) : results[k] = Empty THEN fallback
  ELSE LET k == CHOOSE i \in 1..Len(results) :
                  results[i] # Empty /\ \A j \in 1..(i - 1) : results[j] = Empty
       IN  results[k]

C9_FocusMustBeTypeable ==
  (/\ ~isTypeable(dom, deepActiveElement(dom))
   /\ FromRegion(currentCfg, dom) = Empty /\ FromTrained(currentCfg, dom) = Empty
   /\ FromTypeEl(currentCfg, dom) = Empty)
    => /\ FromActive(dom) = Empty
       /\ detectActiveSymbol(currentCfg, dom, lastActivatedSymbol) =
            FirstOf(<<FromUrl(dom), FromHints(dom.hints, 1)>>, lastActivatedSymbol)

\* the focus is on the bound input, whose value names a symbol
C9_Witness ==
  /\ isTypeable(dom, deepActiveElement(dom))
  /\ deepActiveElement(dom) = ElType
  /\ FromActive(dom) = AAPL

\* token validation as the claim states it
ValidSymbol(s) ==
  \/ s = Empty
  \/ /\ Len(s) >= 1 /\ Len(s) <= 7
     /\ s[1] \in UpperSet
     /\ \A k \in 1..Len(s) : s[k] \in UpperSet \/ s[k] \in Digits \/ s[k] \in {".", "-"}
     /\ s \notin _TICKER_STOPWORDS

\* C10: every symbol the engine emits survives token validation: the result
\* of extractTicker for every input, every value detectActiveSymbol returns
\* and every value held in lastActivatedSymbol is empty or an uppercase token
\* that starts with a letter, has length 1 to 7, contains only letters,
\* digits, '.' and '-', and is no stopword.
C10_EmittedSymbolsValid ==
  /\ ValidSymbol(call.s)
  /\ ValidSymbol(lastActivatedSymbol)
  /\ ValidSymbol(detectActiveSymbol(currentCfg, dom, lastActivatedSymbol))

\* "brk.b" was activated, and later detection finds another symbol on the page
C10_Witness ==
  /\ lastActivatedSymbol = <<"B","R","K",".","B">>
  /\ call.pc = "idle"
  /\ detectActiveSymbol(currentCfg, dom, lastActivatedSymbol)
       \notin {Empty, lastActivatedSymbol}

\* C11: extractTicker returns the empty string for any input that is a single
\* unbroken alphanumeric word of more than 7 characters after its leading
\* digits, "toolongwordstring" among them.
C11_LongWordRejected ==
  (call.pc # "idle" /\ call.raw \in LongWords) => call.s = Empty

\* a word of 8 to 15 characters was rejected
C11_Witness ==
  /\ call.pc = "returned"
  /\ call.raw = SubSeq(WordLetters, 1, 8)
  /\ call.s = Empty

\* what the claim expects of a single token with body b
ExpectedOfBody(b) == IF ToUpperCase(b) \in _TICKER_STOPWORDS THEN Empty ELSE ToUpperCase(b)

\* C12: for a single token made of a run of leading digits and a body that
\* starts with a letter, has length 1 to 7 and uses only letters, digits, '.'
\* and '-', extractTicker returns the uppercase body, or the empty string when
\* the body is a stopword.
C12_BodyReturned ==
  call.pc # "idle" =>
    \A d \in 0..MaxDigits, b \in Bodies :
      call.raw = DigitRun(d) \o b => call.s = ExpectedOfBody(b)

\* "1brk.b" gave "BRK.B"
C12_Witness ==
  /\ call.pc = "returned"
  /\ call.raw = <<"1","b","r","k",".","b">>
  /\ call.s = <<"B","R","K",".","B">>
  /\ call.result

(***************************************************************************)
(* post: throttle and duplicate suppression                                *)
(***************************************************************************)
\* C19: any two messages post emits are at least THROTTLE_MS apart, and every
\* message post emits carries a finite, strictly positive price, whatever the
\* sequence of calls and arguments
C19_ThrottledAndPositive ==
  /\ hEmit.n = 2 => hEmit.gap >= THROTTLE_MS
  /\ hEmit.n >= 1 => FinitePositive(hEmit.price)
  /\ \A k \in 1..Len(inflight) : FinitePositive(inflight[k].price)

\* two messages were emitted exactly THROTTLE_MS apart, and a call with a value
\* that is no price has just been dropped
C19_Witness ==
  /\ hEmit.n = 2
  /\ hEmit.gap = THROTTLE_MS
  /\ ~FinitePositive(hCall.price)
  /\ hCall.at > hEmit.at

\* two consecutive messages with the same price are at least HEARTBEAT_MS apart
SamePriceHeartbeatApart ==
  (hEmit.n = 2 /\ hEmit.price = hEmit.prevPrice)
    => hEmit.gap >= HEARTBEAT_MS

\* C20: two consecutive messages with the same price are at least HEARTBEAT_MS
\* apart; a call with a price equal to the last emitted one within
\* HEARTBEAT_MS of it emits nothing, and a call with a price different from
\* the last emitted one emits it as soon as THROTTLE_MS have passed since the
\* last message
C20_Dedup ==
  /\ []SamePriceHeartbeatApart
  /\ [][\A price \in Prices :
         (hCall' = [price |-> price, at |-> now, since |-> now] /\ hCall' # hCall)
           => /\ (state.lastSentPrice = price /\ now - state.lastSent < HEARTBEAT_MS)
                    => inflight' = inflight
              /\ (state.lastSentPrice # price /\ now - state.lastSent >= THROTTLE_MS)
                    => inflight' = Append(inflight, CursorMsg(price, now))]_vars

\* the same price was emitted twice, HEARTBEAT_MS or more apart
C20_Witness ==
  /\ hEmit.n = 2
  /\ hEmit.price = hEmit.prevPrice
  /\ hEmit.gap = HEARTBEAT_MS

\* a changed price was emitted THROTTLE_MS after the message before it
C20_ChangedWitness ==
  /\ hEmit.n = 2
  /\ hEmit.price # hEmit.prevPrice
  /\ hEmit.gap = THROTTLE_MS

(***************************************************************************)
(* Training                                                                *)
(***************************************************************************)
\* a storage call of a training waits for its answer
SetPending == \E k \in 1..Len(storageQ) : storageQ[k].op = "set"

\* C14: after a training was cancelled with Escape, no handler of that
\* training writes a binding, and the overlay and listeners of the cancelled
\* training are gone
C14_CancelDiscards ==
  /\ hTrain.late = {}
  /\ session.sid \in hTrain.cancelled => session.kind = NoSession

\* a training was cancelled with none of its handlers suspended, and nothing
\* was written
C14_Witness ==
  /\ session.sid \in hTrain.cancelled
  /\ session.kind = NoSession
  /\ sleeping = {} /\ ~SetPending
  /\ hTrain.late = {} /\ hTrain.done = {}
  /\ liveTimers = 0

C16_LastTrainedWins ==
  (~SetPending) =>
    /\ hTrain.lastRegion # <<>> =>
         /\ storage.activeSymbolRegion = <<hTrain.lastRegion>>
         /\ currentCfg.activeSymbolRegion = hTrain.lastRegion
         /\ storage.activeSymbolPath = <<<<>>>>
         /\ currentCfg.activeSymbolPath = <<>>
    /\ hTrain.lastPoint # <<>> =>
         /\ storage.symbolClickSelector = <<hTrain.lastPoint[1].click>>
         /\ storage.symbolTypeSelector = <<hTrain.lastPoint[1].type>>
         /\ currentCfg.symbolClickSelector = hTrain.lastPoint[1].click
         /\ currentCfg.symbolTypeSelector = hTrain.lastPoint[1].type

\* two region trainings and a point binding were made, and the configuration
\* was reloaded since
C16_Witness ==
  /\ Cardinality(hTrain.done) = 2
  /\ hTrain.lastRegion # <<>>
  /\ storage.activeSymbolRegion = <<hTrain.lastRegion>>
  /\ currentCfg.activeSymbolRegion = hTrain.lastRegion
  /\ poll = "fetch"
  /\ ~SetPending

\* the drag that a release has just ended is narrower or lower than 6 px
ShortDrag(d) ==
  \/ Abs(d.to.x - d.from.x) < 6
  \/ Abs(d.to.y - d.from.y) < 6

\* C17: the release of a drag narrower or lower than 6 px writes nothing to
\* storage or currentCfg, makes no storage call, leaves the status line as it
\* is and leaves the training installed
C17_ShortDragIsNoOp ==
  [][(hTrain.drag = <<>> /\ hTrain'.drag # <<>> /\ ShortDrag(hTrain'.drag[1]))
       => /\ storage' = storage
          /\ currentCfg' = currentCfg
          /\ storageQ' = storageQ
          /\ widgetStatus' = widgetStatus
          /\ session'.kind = session.kind
          /\ session'.sid = session.sid]_vars

\* a training saw a short drag and then a drag that trained its region
C17_Witness ==
  /\ hTrain.short \cap hTrain.done # {}
  /\ hTrain.lastRegion # <<>>
  /\ ~ShortDrag(hTrain.drag[1])

\* a stored coordinate lies in [0, 1]
InUnit(f) == 0 <= f.num /\ f.num <= f.den

NormalizedRect(r) ==
  /\ InUnit(r.x) /\ InUnit(r.y) /\ InUnit(r.w) /\ InUnit(r.h)
  /\ r.x.num + r.w.num <= r.x.den
  /\ r.y.num + r.h.num <= r.y.den

\* C18: every region a training has written to storage or to currentCfg has
\* x, y, w, h in [0, 1], x + w <= 1 and y + h <= 1
C18_PersistedRegionsNormalized ==
  /\ hTrain.lastRegion # <<>> => NormalizedRect(hTrain.lastRegion[1])
  /\ hTrain.lastAxis # <<>> => NormalizedRect(hTrain.lastAxis[1])

\* a drag inside the viewport was trained, and its region is normalized
C18_Witness ==
  /\ hTrain.lastRegion # <<>>
  /\ storage.activeSymbolRegion = <<hTrain.lastRegion>>
  /\ NormalizedRect(hTrain.lastRegion[1])

(***************************************************************************)
(* The trained region and the symbol label                                 *)
(***************************************************************************)
\* the region of the last training is the one in currentCfg
RegionTrained ==
  hTrain.lastRegion # <<>> /\ currentCfg.activeSymbolRegion = hTrain.lastRegion

\* C13 as stated: once a rectangle covering the label "NVDA 212.50" is
\* trained, detectActiveSymbol returns NVDA, whatever the rectangle's size
C13_CoveringRegionDetects ==
  RegionTrained => detectActiveSymbol(currentCfg, dom, lastActivatedSymbol) = NVDA

\* the area of the part of the label inside the rectangle r
LabelAreaIn(r) ==
  LET iw == Min(r.rx + r.rw, SymbolLabel.left + SymbolLabel.w) - Max(r.rx, SymbolLabel.left)
      ih == Min(r.ry + r.rh, SymbolLabel.top + SymbolLabel.h) - Max(r.ry, SymbolLabel.top)
  IN  IF iw > 0 /\ ih > 0 THEN iw * ih ELSE 0

\* the label fills at least a quarter of the rectangle r, and one of the five
\* points sampled in r lies on the label
LabelWithinReach(r) ==
  /\ 4 * LabelAreaIn(r) >= r.rw * r.rh
  /\ \E k \in 1..5 : Contains(SymbolLabel, SamplePoints(r)[k])

\* C13: once a rectangle covering the label "NVDA 212.50" is trained in which
\* the label fills at least a quarter and one of whose five sampled points
\* falls on the label, detectActiveSymbol returns NVDA (on a page where no
\* other sampled element outside the widget carries a ticker)
C13_CoveringRegionWithinReachDetects ==
  (RegionTrained /\ LabelWithinReach(RegionRect(hTrain.lastRegion[1])))
    => detectActiveSymbol(currentCfg, dom, lastActivatedSymbol) = NVDA

\* a rectangle larger than the label was trained and NVDA is detected
C13_Witness ==
  /\ RegionTrained
  /\ hTrain.drag = <<[from |-> [x |-> 58, y |-> 97], to |-> [x |-> 160, y |-> 120]]>>
  /\ LabelWithinReach(RegionRect(hTrain.lastRegion[1]))
  /\ detectActiveSymbol(currentCfg, dom, lastActivatedSymbol) = NVDA
  /\ poll = "fetch"

(***************************************************************************)
(* The message listener on its own: messages of the script and of others   *)
(***************************************************************************)
\* what other scripts of the page may post: the messages that are no cursor
\* price, one with a negative price, and one shaped like the script's own with
\* an old timestamp
ListenMessages ==
  ForeignMessages
    \cup { [rhwidget |-> TRUE, type |-> "cursor_price", price |-> 0 - 5000, ts |-> 0],
           [rhwidget |-> TRUE, type |-> "cursor_price", price |-> 99001, ts |-> 0] }

NextListen ==
  \/ TickPost
  \/ \E price \in Prices : PostCall(price)
  \/ \E m \in ListenMessages : ForeignPost(m)
  \/ OnMessage

SpecListen == InitPost /\ [][NextListen]_vars

HookStart == 50
QuantumHook == 11
MaxTimeHook == 72

\* the y-axis canvas of a chart on a display with two device pixels per px
ScaledAxis == Canvas("yAxisLabelsCanvas", TRUE, 100, 2)

\* a fillText call of the page: its text, its x and y, and whether reading
\* the text throws
DrawCall(text, x, y, throws) == [text |-> text, x |-> x, y |-> y, throws |-> throws]

PriceText == <<"2","1","2",".","5","0","4">>

\* the labels the page draws: a price at the right edge 5, 25 and 40 canvas
\* pixels from the row of a pointer at clientY 150, and left of the edge; a
\* price behind a sign; zero; a word; a text that cannot be read
DrawCalls ==
  { DrawCall(PriceText, 300, 105, FALSE), DrawCall(PriceText, 300, 125, FALSE),
    DrawCall(PriceText, 300, 140, FALSE), DrawCall(PriceText, 288, 105, FALSE),
    DrawCall(<<"-","9","9",".","0","0","1">>, 300, 125, FALSE),
    DrawCall(<<"0",".","0","0">>, 300, 105, FALSE), DrawCall(AAPL, 300, 105, FALSE),
    DrawCall(PriceText, 300, 105, TRUE) }

\* the fill styles the page uses: a dark badge, a green one, a gradient
HookStyles ==
  { Style("hex6", 30, 34, 40), Style("rgb", 20, 200, 90), Style("other", 0, 0, 0) }

TickHook == Tick(QuantumHook, MaxTimeHook, FALSE)

NextHook ==
  \/ TickHook
  \/ \E cy \in {150} : MouseMove(1, cy)
  \/ \E style \in HookStyles : SetFillStyle(1, style)
  \/ \E w \in {60, 300} : CtxFillRect(1, w, 20)
  \/ \E d \in DrawCalls : CtxFillText(1, d.text, d.x, d.y, d.throws)
  \/ OnMessage

\* either script has run its first installOnce on a page with one y-axis
\* canvas, HookStart ms after the page's time origin; the pointer has not moved
InitHook ==
  /\ now = HookStart
  /\ reader \in {"inline", "injected"}
  /\ state = [cursorPrice |-> null, lastSent |-> 0, lastSentPrice |-> null]
  /\ inflight = <<>>
  /\ tickWake = HookStart
  /\ domPrice = null
  /\ lastFrameCursorPrice = null
  /\ lastFrameCursorTs = 0
  /\ legendRoute = FALSE
  /\ cpl = [lastGood |-> null, lastGoodTs |-> 0, wake |-> 0, iter |-> 0]
  /\ cursorPriceText = Dash
  /\ hCall = [price |-> null, at |-> 0, since |-> 0]
  /\ hRecv = [price |-> null, at |-> 0]
  /\ hEmit = [n |-> 0, at |-> 0, price |-> null, gap |-> 0, prevPrice |-> null]
  /\ InitSymWorld({"absent"}, {FALSE}, {FALSE}, {FALSE}, {FALSE}, {FALSE}, {Empty},
                  {<<"5","M","S","F","T">>}, {Empty}, {Empty})
  /\ InitTrainIdle
  /\ canvases = installOnce(<<ScaledAxis>>, FALSE, reader).canvases
  /\ hooked = TRUE
  /\ lastMouseClientY = null
  /\ mouseY_canvas = null
  /\ hDraw = NoDraw
  /\ hClass = NoClass
  /\ hFit = NoFit
  /\ hKey = NoKey
  /\ runs = <<>>
  /\ hSteps = <<>>
  /\ hSel = NoDescriptor
  /\ hPass = [n |-> 1, added |-> 0, lastLen |-> 1, again |-> FALSE]

SpecHook == InitHook /\ [][NextHook]_vars

\* the text is a positive number: digits with an optional decimal part, not
\* zero, with nothing around it but blanks
PositiveNumberText(text) ==
  LET s == Trim(text)
  IN  /\ s # <<>>
      /\ \A i \in 1..Len(s) : s[i] \in Digits \cup {"."}
      /\ Cardinality({i \in 1..Len(s) : s[i] = "."}) <= 1
      /\ s[1] # "." /\ s[Len(s)] # "."
      /\ \E i \in 1..Len(s) : s[i] \in Digits \ {"0"}

\* the last pointer position the script knows, in the coordinates of the
\* canvas, <<>> when it knows none
KnownPointerY(cv) ==
  IF reader = "injected"
    THEN (IF lastMouseClientY = null THEN <<>>
          ELSE <<(lastMouseClientY - cv.top) * cv.scale>>)
    ELSE (IF mouseY_canvas = null THEN <<>> ELSE <<mouseY_canvas>>)

\* the badge a label may sit on: the canvas's last remembered rectangle was
\* filled no more than 12 ms ago with a neutral-dark colour
OnRecentDarkBadge(cv) ==
  /\ cv.lastRect # <<>>
  /\ now - cv.lastRect[1].t <= 12
  /\ isNeutralDark(cv.lastRect[1].fill)
  /\ ~isGreen(cv.lastRect[1].fill)
  /\ ~isRed(cv.lastRect[1].fill)

\* C22: a fillText through a wrapped canvas emits a price only when its text
\* is a positive number, its x is in the right-hand 28% of the canvas width, a
\* pointer position is known and the y is within 35 px of it, and the
\* canvas's last remembered badge-sized rectangle was filled within 12 ms
\* with a colour that is neutral-dark and neither green nor red
C22_EmitsOnlyOnBadge ==
  [][(hDraw'.seq # hDraw.seq /\ hDraw'.op = "fillText" /\ hDraw'.out # <<>>)
       => LET cv == canvases[hDraw'.c]
              a == hDraw'.args
          IN  /\ PositiveNumberText(a.text)
              /\ 100 * a.x >= 72 * CanvasWidth
              /\ KnownPointerY(cv) # <<>>
              /\ Abs(a.y - KnownPointerY(cv)[1]) <= 35
              /\ OnRecentDarkBadge(cv)]_vars

\* the injected script has emitted the price of a label drawn at the pointer
\* row of a canvas on which no rectangle was ever remembered
C22_Witness ==
  /\ reader = "injected"
  /\ hDraw.op = "fillText"
  /\ hDraw.out # <<>>
  /\ hDraw.args.text = PriceText
  /\ Abs(hDraw.args.y - (lastMouseClientY - canvases[hDraw.c].top) * canvases[hDraw.c].scale) < 10
  /\ canvases[hDraw.c].lastRect = <<>>

\* C23: every fillRect and fillText through a wrapped canvas calls the original
\* operation exactly once, with the caller's arguments, and returns its
\* result, whether or not a price was emitted or the capture threw
C23_AlwaysDelegates ==
  (hDraw.op # "none" /\ hDraw.layers > 0)
    => /\ hDraw.origCalls = 1
       /\ hDraw.origArgs = hDraw.args
       /\ hDraw.result = "original"

\* a fillText through a wrapped canvas has emitted a price and has drawn its
\* label
C23_Witness ==
  /\ hDraw.op = "fillText"
  /\ hDraw.layers > 0
  /\ hDraw.out # <<>>
  /\ hDraw.origCalls = 1

(***************************************************************************)
(* Install passes over a page whose canvases come and go                   *)
(***************************************************************************)
\* a canvas without data-element
PlainCanvas == Canvas("", TRUE, 100, 1)

\* the pages the script starts on: no canvas, one canvas without role, one
\* y-axis canvas, and more canvases without role than the fallback takes
StartPages ==
  { <<>>, <<PlainCanvas>>, <<AxisCanvas>>, [i \in 1..(FALLBACK_CANVASES + 1) |-> PlainCanvas] }

\* drawing calls go to the first canvases of the page
NextInstall ==
  \/ InstallOnce
  \/ \E role \in {"", "yAxisLabelsCanvas", "crossToolCanvas"}, has2d \in BOOLEAN :
       AddCanvas(role, has2d, 100, 1)
  \/ \E c \in 1..3 : CtxFillRect(c, 60, 20)
  \/ \E c \in 1..3 : CtxFillText(c, PriceText, 300, 55, FALSE)

\* either script has run its first installOnce on one of the pages
InitInstall ==
  /\ InitPrice /\ domPrice = null /\ legendRoute = FALSE
  /\ InitSymWorld({"absent"}, {FALSE}, {FALSE}, {FALSE}, {FALSE}, {FALSE}, {Empty},
                  {<<"5","M","S","F","T">>}, {Empty}, {Empty})
  /\ InitTrainIdle
  /\ \E page \in StartPages :
       /\ canvases = installOnce(page, FALSE, reader).canvases
       /\ hooked = installOnce(page, FALSE, reader).hooked
       /\ hPass = [n |-> 1, added |-> 0, lastLen |-> Len(page), again |-> FALSE]
  /\ lastMouseClientY = null
  /\ mouseY_canvas = null
  /\ hDraw = NoDraw
  /\ hClass = NoClass
  /\ hFit = NoFit
  /\ hKey = NoKey
  /\ runs = <<>>
  /\ hSteps = <<>>
  /\ hSel = NoDescriptor

SpecInstall == InitInstall /\ [][NextInstall]_vars

\* no canvas carries more than one wrapper, and a drawing call runs the
\* capture at most once and the original operation once
WrappedAtMostOnce ==
  /\ \A i \in 1..Len(canvases) : canvases[i].layers <= 1
  /\ hDraw.op # "none" => hDraw.captures <= 1 /\ hDraw.origCalls = 1

\* C24: whatever the number and order of install passes, every canvas is
\* wrapped at most once, so that one drawing call runs the capture once and
\* the original operation once; and after every pass each canvas of the page
\* with one of the roles and a 2D context is wrapped, those created since
\* the pass before included
C24_WrappedOncePerSurface ==
  /\ []WrappedAtMostOnce
  /\ [][hPass'.n # hPass.n
          => \A i \in 1..Len(canvases') :
               (canvases'[i].role \in Roles /\ canvases'[i].has2d)
                 => canvases'[i].layers = 1]_vars

\* a canvas created after the script started was wrapped by a later pass, a
\* pass has met a canvas it had wrapped before, and a label was drawn through
\* the new canvas with one run of the capture
C24_Witness ==
  /\ hPass.added > 0
  /\ hPass.again
  /\ hPass.lastLen = Len(canvases)
  /\ canvases[Len(canvases)].flag
  /\ canvases[Len(canvases)].layers = 1
  /\ hDraw.op = "fillText"
  /\ hDraw.c = Len(canvases)
  /\ hDraw.c > 1
  /\ hDraw.captures = 1
  /\ hDraw.origCalls = 1

\* C25: every install pass of injected_cursor.js over a page without a canvas
\* with one of the roles leaves the first FALLBACK_CANVASES canvases that
\* have a 2D context wrapped, also when some canvas was wrapped before
C25_FallbackInEveryPass ==
  [][(hPass'.n # hPass.n /\ reader = "injected"
        /\ \A i \in 1..Len(canvases) : canvases[i].role \notin Roles)
       => \A i \in 1..Len(canvases) :
            (i <= FALLBACK_CANVASES /\ canvases[i].has2d) => canvases'[i].layers >= 1]_vars

\* the last pass of injected_cursor.js ran over a page without a canvas with
\* one of the roles, some canvas was wrapped before, and a canvas created
\* since is among the first FALLBACK_CANVASES and is not wrapped
C25_Witness ==
  /\ reader = "injected"
  /\ hooked
  /\ hPass.n > 1
  /\ hPass.lastLen = Len(canvases)
  /\ \A i \in 1..Len(canvases) : canvases[i].role \notin Roles
  /\ canvases[1].layers = 1
  /\ \E i \in 2..Len(canvases) :
       i <= FALLBACK_CANVASES /\ canvases[i].has2d /\ canvases[i].layers = 0

(***************************************************************************)
(* The colour classifiers on their own                                     *)
(***************************************************************************)
\* channel values around the thresholds of the classifiers, and hexadecimal
\* digits
ChannelValues == {0, 40, 67, 68, 89, 90, 110, 111, 150, 151, 190, 191, 255}
HexDigitValues == {0, 5, 9, 15}

\* the styles classified: every triple of the channel values as rgb(...), some
\* as #rrggbb, every triple of the digits as #rgb, and styles that are no
\* colour for parseRgb
ColourStyles ==
  { Style("rgb", r, g, b) : r \in ChannelValues, g \in ChannelValues, b \in ChannelValues }
    \cup { Style("hex6", r, g, b) : r \in {0, 89, 190}, g \in {0, 89, 190}, b \in {0, 89, 190} }
    \cup { Style("hex3", r, g, b) : r \in HexDigitValues, g \in HexDigitValues,
                                    b \in HexDigitValues }
    \cup { Style(form, 0, 0, 0) : form \in {"hex8", "other", "empty"} }

NextColour == Classify

\* the classifiers are about to be called with one of the styles
InitColour ==
  /\ InitPrice /\ reader = "injected" /\ domPrice = null /\ legendRoute = FALSE
  /\ InitSymWorld({"absent"}, {FALSE}, {FALSE}, {FALSE}, {FALSE}, {FALSE}, {Empty},
                  {<<"5","M","S","F","T">>}, {Empty}, {Empty})
  /\ InitTrainIdle
  /\ canvases = installOnce(<<AxisCanvas>>, FALSE, "injected").canvases
  /\ hooked = TRUE
  /\ lastMouseClientY = null
  /\ mouseY_canvas = null
  /\ hDraw = NoDraw
  /\ hPass = [n |-> 1, added |-> 0, lastLen |-> 1, again |-> FALSE]
  /\ hClass \in {Unclassified(style) : style \in ColourStyles}
  /\ hFit = NoFit
  /\ hKey = NoKey
  /\ runs = <<>>
  /\ hSteps = <<>>
  /\ hSel = NoDescriptor

SpecColour == InitColour /\ [][NextColour]_vars

\* the channels a style stands for, each in 0..255
Channels(style) ==
  IF style.form = "hex3" THEN [r |-> 17 * style.r, g |-> 17 * style.g, b |-> 17 * style.b]
  ELSE [r |-> style.r, g |-> style.g, b |-> style.b]

IsColour(style) == style.form \in {"rgb", "hex6", "hex3"}

\* C26: every colour whose green channel is at least 150 and at least 40
\* above both other channels is classified green, and every colour whose red
\* channel is at least 150 and at least 40 above both others is classified red
C26_LeadingChannelClassified ==
  (hClass.done /\ IsColour(hClass.style))
    => LET c == Channels(hClass.style)
       IN  /\ (c.g >= 150 /\ c.g >= c.r + 40 /\ c.g >= c.b + 40) => hClass.green
           /\ (c.r >= 150 /\ c.r >= c.g + 40 /\ c.r >= c.b + 40) => hClass.red

\* rgb(0, 150, 0) was classified, and not as green
C26_Witness ==
  /\ hClass.done
  /\ hClass.style = Style("rgb", 0, 150, 0)
  /\ ~hClass.green

\* C27: no colour is in more than one of the classes green, red and
\* neutral-dark, and a style that is no colour is in none of them
C27_ClassesExclusive ==
  /\ ~(hClass.green /\ hClass.red)
  /\ ~(hClass.dark /\ hClass.green)
  /\ ~(hClass.dark /\ hClass.red)
  /\ ~IsColour(hClass.style) => ~hClass.green /\ ~hClass.red /\ ~hClass.dark

\* a colour with a dark, leading red channel was classified red and not
\* neutral-dark
C27_Witness ==
  /\ hClass.done
  /\ hClass.style = Style("rgb", 190, 0, 0)
  /\ hClass.red
  /\ ~hClass.dark
  /\ ~hClass.green

(***************************************************************************)
(* SpecFit: calls of detectCursorPriceFromScale over the elements of an    *)
(* axis                                                                    *)
(***************************************************************************)
\* the muted grey of the axis labels and the white of the crosshair label
AxisGrey == <<[r |-> 140, g |-> 140, b |-> 140]>>
White == <<[r |-> 255, g |-> 255, b |-> 255]>>

AxisLabel(text, y2) == AxisEl(text, y2, TRUE, AxisGrey, FALSE)

\* the elements the sampling can meet, prices in thousandths and rows in half
\* pixels: four labels on p = 500 - 20 y (one at a half pixel), three on
\* p = 100 + 10 y, two more prices in the row of y = 12, a second element of
\* the label at y = 4 half a pixel higher, the white crosshair label, a price
\* on a background, a negative number, a price with a currency sign that is on
\* neither line, and a label below the region
AxisPool ==
  << AxisLabel(ToFixed2(420), 8), AxisLabel(ToFixed2(260), 24),
     AxisLabel(ToFixed2(150), 35), AxisLabel(ToFixed2(60), 44),
     AxisLabel(ToFixed2(150), 10), AxisLabel(ToFixed2(200), 20),
     AxisLabel(ToFixed2(300), 40),
     AxisLabel(ToFixed2(300), 24), AxisLabel(ToFixed2(200), 24),
     AxisLabel(ToFixed2(420), 7),
     AxisEl(ToFixed2(330), 16, TRUE, White, FALSE),
     AxisEl(ToFixed2(210), 36, TRUE, AxisGrey, TRUE),
     AxisLabel(<<"-","5",".","0","0">>, 44),
     AxisLabel(<<"$","0",".","4","5">>, 30),
     AxisLabel(ToFixed2(100), 56) >>

\* the elements of the pool with an index in S, in the order of the pool
RECURSIVE PickFrom(_, _, _)
PickFrom(pool, S, i) ==
  IF i > Len(pool) THEN <<>>
  ELSE (IF i \in S THEN <<pool[i]>> ELSE <<>>) \o PickFrom(pool, S, i + 1)

\* the axis region of the chart, and one too narrow to sample
AxisRegion == [left |-> 340, top |-> 0, right |-> 400, bottom |-> 24]
NarrowRegion == [left |-> 396, top |-> 0, right |-> 400, bottom |-> 24]

\* the rows asked for, in half pixels: two rows of labels, and a row below
\* the chart where the first line is negative
BaseRows == {8, 35, 60}

NextFit == DetectFromScale

InitFit ==
  /\ InitPrice /\ reader = "injected" /\ domPrice = null /\ legendRoute = FALSE
  /\ InitSymWorld({"absent"}, {FALSE}, {FALSE}, {FALSE}, {FALSE}, {FALSE}, {Empty},
                  {<<"5","M","S","F","T">>}, {Empty}, {Empty})
  /\ InitTrainIdle
  /\ canvases = installOnce(<<AxisCanvas>>, FALSE, "injected").canvases
  /\ hooked = TRUE
  /\ lastMouseClientY = null
  /\ mouseY_canvas = null
  /\ hDraw = NoDraw
  /\ hPass = [n |-> 1, added |-> 0, lastLen |-> 1, again |-> FALSE]
  /\ hClass = NoClass
  /\ hKey = NoKey
  /\ runs = <<>>
  /\ hSteps = <<>>
  /\ hSel = NoDescriptor
  /\ hFit \in {FitCall(AxisRegion, yBase2, PickFrom(AxisPool, S, 1)) :
                 yBase2 \in BaseRows, S \in SUBSET (1..Len(AxisPool))}
              \cup {FitCall(NarrowRegion, yBase2, PickFrom(AxisPool, S, 1)) :
                      yBase2 \in BaseRows, S \in SUBSET (1..4)}

SpecFit == InitFit /\ [][NextFit]_vars

\* all points have the same y
AllSameY(points) == \A i, j \in 1..Len(points) : points[i].y2 = points[j].y2

\* C28: the fit returns null when fewer than 3 points survive the filters
\* and the deduplication or all surviving points have the same y, and a
\* value it returns is a finite, strictly positive number
C28_DegenerateFitReturnsNull ==
  hFit.done
    => /\ (Len(hFit.points) < 3 \/ AllSameY(hFit.points)) => hFit.out = <<>>
       /\ hFit.out # <<>> => (hFit.out[1].den # 0 /\ PositiveFraction(hFit.out[1]))

\* three prices in one row were fitted and nothing was returned
C28_Witness ==
  /\ hFit.done
  /\ Len(hFit.points) = 3
  /\ AllSameY(hFit.points)
  /\ hFit.regionRect.right - hFit.regionRect.left >= 6
  /\ hFit.out = <<>>

\* the points lie on one line that is neither vertical nor flat
OnALine(points) ==
  /\ \A i, j, k \in 1..Len(points) :
       (points[j].p - points[i].p) * (points[k].y2 - points[i].y2)
         = (points[k].p - points[i].p) * (points[j].y2 - points[i].y2)
  /\ \A i, j \in 1..Len(points) :
       i # j => (points[i].y2 # points[j].y2 /\ points[i].p # points[j].p)

\* C29: for at least 3 points on a line p = a*y + b with a nonzero, the fit
\* computes the slope a and the intercept b of that line, its value at every
\* sampled y is the price of that point, and a call for a sampled row returns
\* that price
C29_FitRecoversLine ==
  (hFit.done /\ Len(hFit.points) >= 3 /\ OnALine(hFit.points))
    => LET pts == hFit.points
           D == FitSums(pts).denom4
           N == SlopeNum(pts)
       IN  /\ D # 0
           /\ \A i, j \in 1..Len(pts) :
                N * (pts[j].y2 - pts[i].y2) = D * (pts[j].p - pts[i].p)
           /\ \A i \in 1..Len(pts) :
                /\ FitAt(pts, 0).num = Len(pts) * (pts[i].p * D - N * pts[i].y2)
                /\ FitAt(pts, pts[i].y2).num = pts[i].p * FitAt(pts, pts[i].y2).den
                /\ hFit.yBase2 = pts[i].y2
                     => /\ hFit.out # <<>>
                        /\ hFit.out[1].num = pts[i].p * hFit.out[1].den

\* the four labels of the first line were fitted and the call for the row of
\* 0.15 returned that price
C29_Witness ==
  /\ hFit.done
  /\ Len(hFit.points) = 4
  /\ OnALine(hFit.points)
  /\ hFit.yBase2 = 35
  /\ hFit.out # <<>>
  /\ hFit.out[1].num = 150 * hFit.out[1].den

(***************************************************************************)
(* SpecKeys: keys pressed in the page and in the widget                    *)
(***************************************************************************)
\* the elements keys are pressed in: the body, an input, a textarea and an
\* editable element of the page; the quantity, offset and code inputs and a
\* button of the widget; the news panel beside the widget
KeyOrigins ==
  { KeyElement("body", "document", "plain", FALSE),
    KeyElement("page-input", "document", "input", FALSE),
    KeyElement("page-textarea", "document", "textarea", FALSE),
    KeyElement("page-editable", "document", "editable", FALSE),
    KeyElement("qty-input", "shadow", "input", TRUE),
    KeyElement("limit-input", "shadow", "input", TRUE),
    KeyElement("sms-input", "shadow", "input", TRUE),
    KeyElement("buy-btn", "shadow", "plain", TRUE),
    KeyElement("news-panel", "shadow", "plain", FALSE) }

\* the keys pressed: Shift+1 and Shift+2, Shift+1 on a layout that types 1,
\* 1 alone, Ctrl+Shift+1, and a letter
KeyEvents ==
  { KeyEvent("!", "Digit1", FALSE, TRUE, FALSE), KeyEvent("@", "Digit2", FALSE, TRUE, FALSE),
    KeyEvent("1", "Digit1", FALSE, TRUE, FALSE), KeyEvent("1", "Digit1", FALSE, FALSE, FALSE),
    KeyEvent("!", "Digit1", FALSE, TRUE, TRUE), KeyEvent("a", "KeyA", FALSE, FALSE, FALSE) }

NextKeys ==
  \/ \E origin \in KeyOrigins, e \in KeyEvents : KeyDown(origin, e)
  \/ RouteChange
  \/ \E outcome \in {"sent", "failed"} : TradeResponse(outcome)
  \/ TradeDone

\* the widget on either route, before or after an activation of TSLA
InitKeys ==
  /\ InitPrice /\ reader = "injected" /\ domPrice = null
  /\ InitSymWorld({"absent"}, {FALSE}, {FALSE}, {FALSE}, {FALSE}, {FALSE}, {Empty},
                  {<<"5","M","S","F","T">>}, {Empty}, {Empty, TSLA})
  /\ InitTrainIdle
  /\ InitHookIdle

SpecKeys == InitKeys /\ [][NextKeys]_vars

\* C30: a keydown invokes executeTrade only on the Legend route and only
\* when the key was not pressed in an input, a textarea or an editable
\* element, the inputs of the widget included
C30_HotkeysNotWhileTyping ==
  hKey.side # "none" => (hKey.onLegend /\ ~isEditableTarget(hKey.origin))

\* Shift+1 was pressed in the code input of the widget on the Legend route and
\* a buy was started
C30_Witness ==
  /\ hKey.origin.name = "sms-input"
  /\ hKey.e = hotkeys.buy
  /\ hKey.onLegend
  /\ hKey.side = "buy"
  /\ trade.side = "buy"
  /\ trade.pc = "fetch"

(***************************************************************************)
(* Training and pollLoop                                                   *)
(***************************************************************************)
\* C31: once a point binding has written its selectors, the click and type
\* selectors of currentCfg are those selectors at every later moment until
\* the next binding, however the storage calls of the binding and of pollLoop
\* interleave
C31_BindingSurvivesReload ==
  hTrain.lastPoint # <<>> =>
    /\ currentCfg.symbolClickSelector = hTrain.lastPoint[1].click
    /\ currentCfg.symbolTypeSelector = hTrain.lastPoint[1].type

\* a binding without a type element was written, pollLoop has reloaded the
\* configuration since, and the type selector of currentCfg is the legacy one
C31_Witness ==
  /\ hTrain.lastPoint # <<>>
  /\ hTrain.lastPoint[1].type = Empty
  /\ storage.symbolTypeSelector = <<Empty>>
  /\ currentCfg.symbolClickSelector = hTrain.lastPoint[1].click
  /\ currentCfg.symbolTypeSelector = LegacySelector
  /\ poll = "fetch"

(***************************************************************************)
(* SpecRun: calls of activateSymbol from the ticker list                   *)
(***************************************************************************)
\* the symbols clicked in the ticker list: two symbols and a word that is
\* none
RunInputs == { TSLA, AAPL, <<"S","Y","M","B","O","L">> }

TickRun == Tick(QuantumRun, MaxTimeRun, RunDue)

NextRun ==
  \/ TickRun
  \/ \E raw \in RunInputs, focusTo \in {ElBody, ElType} : RunStart(raw, focusTo)
  \/ \E i \in 1..MaxRuns : RunWrite(i)
  \/ \E i \in 1..MaxRuns, hit \in BOOLEAN : RunSearch1(i, hit)
  \/ \E i \in 1..MaxRuns, hit \in BOOLEAN : RunSearch2(i, hit)
  \/ \E i \in 1..MaxRuns, fulfilled \in BOOLEAN : RunClipboard(i, fulfilled)

\* a page whose bound type element is an input, an input that is read-only,
\* or gone, with no search input
InitRun ==
  /\ InitPrice /\ legendRoute /\ reader = "injected" /\ domPrice = null
  /\ InitSymWorld({"input", "lockedInput", "fileInput", "absent"}, {FALSE}, {FALSE}, {FALSE}, {FALSE},
                  {FALSE}, {Empty}, {Empty}, {Empty}, {Empty})
  /\ InitTrainIdle
  /\ InitHookIdle

SpecRun == InitRun /\ [][NextRun]_vars

\* the steps of call r, in the order made
StepsOf(r) == SelectSeq(hSteps, LAMBDA e : e.run = r)

\* the steps of one call are in the order of activateSymbol
StepsInOrder(L) ==
  \A i \in 1..Len(L) :
    /\ L[i].step = "click" => i = 1
    /\ L[i].step = "write"
         => /\ \A j \in 1..Len(L) : L[j].step \in {"click"} => j < i
            /\ \A j \in 1..(i - 1) : L[j].step = "click"
    /\ L[i].step = "search1"
         => /\ i > 1 /\ L[i - 1].step = "write"
            /\ L[i].at >= L[i - 1].at + SETTLE_DELAY_MS
    /\ L[i].step = "ArrowDown"
         => /\ i > 1 /\ L[i - 1].step = "search1"
            /\ \A j \in 1..Len(L) : L[j].step = "suggestion" => j > i
    /\ L[i].step = "search2"
         => /\ i > 1 /\ L[i - 1].step = "ArrowDown"
            /\ L[i].at >= L[i - 1].at + ARROW_DELAY_MS
    /\ L[i].step = "Enter"
         => /\ i > 2 /\ L[i - 1].step = "search2" /\ L[i - 2].step = "ArrowDown"
            /\ \A j \in 1..Len(L) : L[j].step # "suggestion"
    /\ L[i].step = "suggestion"
         => /\ i > 1 /\ L[i - 1].step \in {"search1", "search2"}
            /\ \A j \in 1..Len(L) : L[j].step = "suggestion" => j = i

\* C32: in a call of activateSymbol the focus click precedes the write, the
\* first search comes after the write and 260 ms, ArrowDown only after a
\* first search that clicked nothing, the second search 140 ms after it,
\* Enter only after a second search that clicked nothing and after
\* ArrowDown, and at most one suggestion is clicked
C32_StepsInOrder == \A r \in 1..Len(runs) : StepsInOrder(StepsOf(r))

\* a call has clicked, written, searched twice without a hit, pressed both
\* keys and returned
C32_Witness ==
  \E r \in 1..Len(runs) :
    LET L == StepsOf(r)
    IN  /\ Len(L) = 7
        /\ [i \in 1..7 |-> L[i].step]
             = <<"click", "write", "search1", "ArrowDown", "search2", "Enter", "return">>
        /\ L[3].at = L[2].at + SETTLE_DELAY_MS
        /\ L[5].at = L[4].at + ARROW_DELAY_MS

(***************************************************************************)
(* SpecRunLive: the timers of the calls fire and the clipboard answers     *)
(***************************************************************************)
\* setTimeout fires every timer that is due, and the promise of
\* navigator.clipboard.writeText settles
RunFairness ==
  /\ WF_vars(TickRun)
  /\ \A i \in 1..MaxRuns :
       /\ WF_vars(RunWrite(i))
       /\ WF_vars(\E hit \in BOOLEAN : RunSearch1(i, hit))
       /\ WF_vars(\E hit \in BOOLEAN : RunSearch2(i, hit))
       /\ WF_vars(\E fulfilled \in BOOLEAN : RunClipboard(i, fulfilled))

SpecRunLive == InitRun /\ [][NextRun]_vars /\ RunFairness

\* a call is suspended in one of its three sleeps or in the clipboard write,
\* or has returned a boolean
SuspendedOrReturned(c) ==
  /\ c.pc \in {"sleep80", "sleep260", "sleep140", "clipboard", "returned"}
  /\ c.result \in BOOLEAN
  /\ c.pc = "clipboard" => ~c.wrote

\* C33: every call of activateSymbol is suspended only in its sleeps of 80,
\* 260 and 140 ms and in the clipboard write, and eventually returns a
\* boolean
C33_EveryCallReturns ==
  /\ [](\A i \in 1..Len(runs) : SuspendedOrReturned(runs[i]))
  /\ \A i \in 1..MaxRuns :
       (Len(runs) >= i) ~> (Len(runs) >= i /\ runs[i].pc = "returned")

\* a call whose target is an <input type="file"> has clicked, slept 80 ms
\* and ended in the exception of setNativeValue, with no result
C33_Witness ==
  \E i \in 1..Len(runs) :
    /\ runs[i].pc = "threw"
    /\ runs[i].target = ElType /\ ElKind(dom, ElType) = "fileInput"
    /\ StepsOf(i) = <<Step(i, "click", StepsOf(i)[1].at, runs[i].s),
                      Step(i, "throw", StepsOf(i)[1].at + FOCUS_DELAY_MS, runs[i].s)>>

(***************************************************************************)
(* Two calls of activateSymbol that overlap                                *)
(***************************************************************************)
\* the place in hSteps of the first step of call r, and of the first of its
\* steps named step (0 when there is none)
FirstStep(r) ==
  IF \E k \in 1..Len(hSteps) : hSteps[k].run = r
    THEN CHOOSE k \in 1..Len(hSteps) :
           hSteps[k].run = r /\ \A j \in 1..(k - 1) : hSteps[j].run # r
    ELSE 0

FirstStepNamed(r, step) ==
  IF \E k \in 1..Len(hSteps) : hSteps[k].run = r /\ hSteps[k].step = step
    THEN CHOOSE k \in 1..Len(hSteps) :
           /\ hSteps[k].run = r /\ hSteps[k].step = step
           /\ \A j \in 1..(k - 1) : ~(hSteps[j].run = r /\ hSteps[j].step = step)
    ELSE 0

\* two calls for different symbols were made, the second while the first was
\* in one of its sleeps, and both have returned
OverlappedAndDone ==
  /\ Len(runs) = 2
  /\ runs[1].s # Empty /\ runs[2].s # Empty /\ runs[1].s # runs[2].s
  /\ runs[1].pc = "returned" /\ runs[2].pc = "returned"
  /\ FirstStep(2) < FirstStepNamed(1, "return")
  /\ FirstStepNamed(1, "clipboard") = 0 \/ FirstStep(2) < FirstStepNamed(1, "clipboard")

\* the text of the type element is the symbol of the later call, which is
\* lastActivatedSymbol
LaterSymbolWritten ==
  /\ lastActivatedSymbol = runs[2].s
  /\ runs[2].wrote => ElText(dom, runs[2].target) = runs[2].s

\* the earlier call clicks no suggestion and presses no Enter after the
\* later call has written
EarlierCallStandsDown ==
  \A k \in 1..Len(hSteps) :
    (hSteps[k].run = 1 /\ hSteps[k].step \in {"suggestion", "Enter"})
      => (FirstStepNamed(2, "write") = 0 \/ k < FirstStepNamed(2, "write"))

\* C34: after two overlapping calls for different symbols have completed, the
\* type element holds the symbol of the later call, which is
\* lastActivatedSymbol, and the earlier call has clicked no suggestion and
\* pressed no Enter after the later call wrote
C34_LaterCallWins ==
  OverlappedAndDone => (LaterSymbolWritten /\ EarlierCallStandsDown)

\* the call for TSLA pressed Enter after the overlapping call for AAPL had
\* written AAPL into the input
C34_Witness ==
  /\ OverlappedAndDone
  /\ runs[1].s = TSLA /\ runs[2].s = AAPL
  /\ ElText(dom, ElType) = AAPL
  /\ \E k \in 1..Len(hSteps) :
       /\ hSteps[k].run = 1 /\ hSteps[k].step = "Enter"
       /\ FirstStepNamed(2, "write") # 0 /\ FirstStepNamed(2, "write") < k

(***************************************************************************)
(* C36: one fillText call, both emission rules                             *)
(***************************************************************************)
\* C36: a fillText call through a wrapped canvas posts at most one
\* cursor_price message, also when the label is within 10 px of the pointer
\* row and on a recent neutral-dark badge, so that post is called twice
C36_OneMessagePerFillText ==
  [][(hDraw'.seq # hDraw.seq /\ hDraw'.op = "fillText")
       => /\ Len(hDraw'.out) <= 1
          /\ Len(inflight') <= Len(inflight) + 1]_vars

\* the injected script's wrapper has called post twice for one label, and one
\* message was posted
C36_Witness ==
  /\ reader = "injected"
  /\ hDraw.op = "fillText"
  /\ hDraw.calls = 2
  /\ Len(hDraw.out) = 1
  /\ hDraw.out[1].price = state.lastSentPrice
  /\ state.lastSent = now

(***************************************************************************)
(* Re-validation: a stored symbol is activated again                       *)
(***************************************************************************)
\* texts of several tokens, and tokens that lose their head to the digit
\* strip
Phrases ==
  { <<"b","u","y"," ","t","s","l","a"," ","n","o","w">>,
    <<"n","v","d","a"," ","1","2",".","5">>,
    <<"t","i","m","e"," ","A","B",".","-","c">>,
    <<"5","-","A">>, <<"7",".","x"," ","9","9","-","Q","Q">> }

RevalidateInputs == TickerInputs \cup TokenInputs \cup LongWords \cup Phrases

\* the first activation of a session with any of the texts, and later
\* activations of the symbol the first one stored
NextRevalidate ==
  \/ /\ lastActivatedSymbol = Empty
     /\ \E raw \in RevalidateInputs, focusTo \in Elements : ActivateStart(raw, focusTo)
  \/ /\ lastActivatedSymbol # Empty
     /\ \E focusTo \in Elements : ActivateStart(lastActivatedSymbol, focusTo)
  \/ ActivateWrite
  \/ \E hit \in BOOLEAN : ActivateSearch1(hit)
  \/ \E hit \in BOOLEAN : ActivateSearch2(hit)
  \/ \E fulfilled \in BOOLEAN : ActivateClipboard(fulfilled)
  \/ ActivateReturn
  \/ ActivateDone

SpecRevalidate == InitExtract /\ [][NextRevalidate]_vars

\* C37: extractTicker of a result of extractTicker is that result, so an
\* activation of the stored symbol works on the symbol unchanged
C37_ExtractTickerIdempotent ==
  /\ call.pc # "idle" => extractTicker(extractTicker(call.raw)) = extractTicker(call.raw)
  /\ call.pc # "idle" => extractTicker(call.s) = call.s
  /\ extractTicker(lastActivatedSymbol) = lastActivatedSymbol

\* the stored symbol BRK.B, or one cut from a text with leading digits, is
\* being activated again and is the symbol the call works on
C37_Witness ==
  /\ call.pc \notin {"idle", "returned"}
  /\ call.raw = lastActivatedSymbol
  /\ call.s = call.raw
  /\ call.s \in {<<"B","R","K",".","B">>, <<"A","-","B",".","C","1","X">>}

(***************************************************************************)
(* SpecPath: a descriptor is built for an element of a page and replayed   *)
(***************************************************************************)
\* the deepest element of the deep page is MaxDepth levels below the body
MaxDepth == 9

Div(parent) == PageEl("div", Empty, Empty, parent, 0, FALSE)
Span(parent) == PageEl("span", Empty, Empty, parent, 0, FALSE)
BodyOfPage == PageEl("body", Empty, Empty, 0, 0, FALSE)

\* a page with an identified container, a field with a data-testid and
\* elements without either
PlainPage ==
  << BodyOfPage,
     PageEl("div", <<"a","p","p">>, Empty, 1, 0, FALSE),
     PageEl("input", Empty, <<"s","y","m">>, 2, 0, FALSE),
     Span(2), Span(2), Div(1), Span(6) >>

\* a chain of MaxDepth divs below the body
DeepPage == [i \in 1..(MaxDepth + 1) |-> IF i = 1 THEN BodyOfPage ELSE Div(i - 1)]

\* two divs below the body, the first with two divs below it
SiblingPage == << BodyOfPage, Div(1), Div(2), Div(2), Div(1) >>

\* a host with an open shadow root that holds a div with a span and a second
\* host, whose open shadow root holds a field with a data-testid and a div
\* with a span
ShadowPage ==
  << BodyOfPage,
     PageEl("div", <<"h","o","s","t">>, Empty, 1, 0, TRUE),
     PageEl("div", Empty, Empty, 0, 2, FALSE),
     PageEl("span", Empty, Empty, 3, 2, FALSE),
     PageEl("div", <<"i","n">>, Empty, 3, 2, TRUE),
     PageEl("input", Empty, <<"q","t","y">>, 0, 5, FALSE),
     PageEl("div", Empty, Empty, 0, 5, FALSE),
     PageEl("span", Empty, Empty, 7, 5, FALSE) >>

\* a list with two fields of one data-testid and two spans of one id
TwinPage ==
  << BodyOfPage,
     PageEl("div", <<"l","i","s","t">>, Empty, 1, 0, FALSE),
     PageEl("input", Empty, <<"q">>, 2, 0, FALSE),
     PageEl("input", Empty, <<"q">>, 2, 0, FALSE),
     PageEl("span", <<"d","u","p">>, Empty, 2, 0, FALSE),
     PageEl("span", <<"d","u","p">>, Empty, 2, 0, FALSE) >>

\* a form three levels down, with elements found by tag and index
FormPage ==
  << BodyOfPage,
     PageEl("div", <<"r","o","o","t">>, Empty, 1, 0, FALSE),
     Div(2), Div(3), Span(4), Span(4),
     PageEl("input", Empty, Empty, 4, 0, FALSE),
     Div(2), Span(8) >>

Pages == {PlainPage, DeepPage, SiblingPage, ShadowPage, TwinPage, FormPage}

NextPath == BuildDescriptor \/ ReplayDescriptor

\* a page and one of its elements other than the body
InitPath ==
  /\ InitPrice /\ legendRoute /\ reader = "injected" /\ domPrice = null
  /\ InitSymWorld({"absent"}, {FALSE}, {FALSE}, {FALSE}, {FALSE}, {FALSE}, {Empty},
                  {Empty}, {Empty}, {Empty})
  /\ InitTrainIdle
  /\ canvases = installOnce(<<AxisCanvas>>, FALSE, "injected").canvases
  /\ hooked = TRUE
  /\ lastMouseClientY = null
  /\ mouseY_canvas = null
  /\ hDraw = NoDraw
  /\ hPass = [n |-> 1, added |-> 0, lastLen |-> 1, again |-> FALSE]
  /\ hClass = NoClass
  /\ hFit = NoFit
  /\ hKey = NoKey
  /\ runs = <<>>
  /\ hSteps = <<>>
  /\ hSel \in UNION { {Descriptor(P, n, "page", <<>>, 0) : n \in 2..Len(P)} : P \in Pages }

SpecPath == InitPath /\ [][NextPath]_vars

\* C35: the replay of the descriptor built for an element of an unchanged
\* page finds that element
C35_ReplayFindsElement == hSel.pc = "replayed" => hSel.node = hSel.el

\* the descriptor of the element MaxDepth levels below the body, which has no
\* id and no attribute, was replayed and found an element above it
C35_Witness ==
  /\ hSel.pc = "replayed"
  /\ hSel.page = DeepPage
  /\ hSel.el = MaxDepth + 1
  /\ Len(hSel.path) = 1 /\ hSel.path[1].kind = "struct" /\ Len(hSel.path[1].parts) = 7
  /\ hSel.node # 0 /\ hSel.node < hSel.el

====
